---- MODULE Spec2Model ----
(***************************************************************************)
(* Open Floor Control: the turn-taking Controller (package floor).         *)
(*                                                                         *)
(* The Controller is a pure state machine: HandleEvent takes one inbound   *)
(* event, updates Messages / CallStack / passedAgents and returns a list   *)
(* of outbound events.  Every action below is one HandleEvent call on one  *)
(* inbound event, with the whole handler (advanceTurn and nextRecipient    *)
(* included) inside it.                                                    *)
(*                                                                         *)
(* Message content is a sequence of chunks: "@", "?", " " and word chunks  *)
(* (runs of \w characters).  extractMentions scans it the way the regular  *)
(* expression @(\w+)\? does.                                               *)
(***************************************************************************)
EXTENDS Integers, Sequences, FiniteSets, TLC

VARIABLES
    Messages,      \* Controller.Messages: the transcript
    CallStack,     \* Controller.CallStack: the delegation chain, top is last
    passedAgents,  \* Controller.passedAgents: ids with value true
    ev,            \* the inbound event of the latest HandleEvent call
    out,           \* the events that call returned
    rules,         \* the branches of nextRecipient that call went through
    before,        \* len(CallStack) and len(passedAgents) when that call began
    unanswered,    \* PromptAgent events returned since the latest AgentDone,
                   \* AgentPassed or AgentError came in (those it caused
                   \* included): 0, 1, or 2 for "more than one"
    panicked,      \* a slice expression went out of range (Go run-time panic)
    fresh,         \* a second Controller, made by NewController when the first
                   \* one processes /clear and given the same events from then
                   \* on (on: it has been made)
    co,            \* the Coordinator around the Controller: where the goroutine
                   \* of Run stands, the frontend's input channel, the runner
                   \* it started (used by the step-by-step run only)
    turn,          \* one runner at work on one agent turn: LLMRunner.Run or
                   \* ACPRunner.Run with its local variables, or the
                   \* FloorClient of the agent's ACP session
    tb,            \* the TaskBoard: tasks, nextID, its lock, and the latest
                   \* call with what it returned
    callers,       \* the goroutines inside a TaskBoard call, each with its
                   \* position and local variables
    tool,          \* LLMRunner's handling of the tool calls of one chat
                   \* result: the calls expanded, the furniture and sandbox
                   \* invocations made, the local history and interactions
    tm,            \* a TerminalManager: its terminals, the commands they
                   \* run, and the calls of WaitForExit that are blocked
    stream,        \* one call of llm.Client.ChatStream: the tool-call
                   \* fragments still to come and the map it assembles
    floor,         \* the resources of Coordinator.Start: the sandbox and
                   \* the sessions of the external agents
    client         \* the FloorClient of one ACP session, its mutex, and the
                   \* two threads that use it: the runner and the handler of
                   \* session/update notifications

vars == <<Messages, CallStack, passedAgents, ev, out, rules, before, unanswered,
          panicked, fresh, co, turn, tb, callers, tool, tm, stream, floor,
          client>>

Nil == "nil"

User == "@user"

\* Transcript length up to which UserMessage and AgentDone are still fed.
MaxMsgs == 2

\* Call-stack depth an AgentPassed may leave behind: an AgentPassed from an
\* agent that is not the top callee re-reads the last message, and may push
\* the frame of its mention once more, without end.
MaxStack == 2

\* Transcript length up to which Coordinator.Run still delivers messages.
MaxFloorMsgs == 4

\* The messages a transcript can hold in SpecCoordinatorFair.
MaxChainMsgs == 3

-----------------------------------------------------------------------------
(* The blueprint: its agents, in blueprint order. *)

Agents ==
    << [ID |-> "@a", Activation |-> "always"],
       [ID |-> "@b", Activation |-> "mention"],
       [ID |-> "@c", Activation |-> "always"] >>

AgentIDs == {Agents[i].ID : i \in 1..Len(Agents)}

\* Ids an AgentDone / AgentPassed / AgentError may carry.
SenderIDs == AgentIDs

-----------------------------------------------------------------------------
(* Inputs. *)

\* Message contents.  The first routes nowhere: "@b" without "?" is no
\* mention and "@ab?" mentions an id the blueprint does not know.  The second
\* mentions two agents against blueprint order, one of them twice.  The
\* third mentions an agent and @user.
Contents ==
    { <<"hi", " ", "@", "b", " ", "@", "a", "b", "?">>,
      <<"@", "c", "?", "@", "a", "?", " ", "@", "c", "?">>,
      <<"@", "b", "?", "@", "user", "?">> }

\* What an AgentDone carries besides its sender: content and tool interactions.
\* Besides the contents above, a reply that carries a tool interaction and
\* whose only mention is "@a?": a self-mention when @a sends it.
AgentDoneInputs ==
    {<<c, <<>>>> : c \in Contents}
        \cup {<<<<"@", "a", "?">>, <<[Command |-> "ls", Output |-> "f"]>>>>}

\* A content without any "@".
Plain == <<"hi">>

Partials == {<<"@", "b", "?">>}

Commands == {"/quit", "/clear", "/foo"}

-----------------------------------------------------------------------------
(* extractMentions: all non-overlapping leftmost matches of @(\w+)\? *)

IsWord(ch) == ch \notin {"@", "?", " "}

RECURSIVE WordRunEnd(_, _)
\* The index of the last chunk of the longest run of word chunks starting
\* at i; i - 1 when there is none.
WordRunEnd(content, i) ==
    IF i <= Len(content) /\ IsWord(content[i])
    THEN WordRunEnd(content, i + 1)
    ELSE i - 1

RECURSIVE JoinChunks(_, _, _)
JoinChunks(content, i, j) ==
    IF i > j THEN "" ELSE content[i] \o JoinChunks(content, i + 1, j)

RECURSIVE ScanMentions(_, _)
ScanMentions(content, i) ==
    IF i > Len(content) THEN <<>>
    ELSE IF content[i] = "@"
         THEN LET e == WordRunEnd(content, i + 1) IN
              IF e >= i + 1 /\ e + 1 <= Len(content) /\ content[e + 1] = "?"
              THEN <<"@" \o JoinChunks(content, i + 1, e)>>
                       \o ScanMentions(content, e + 2)
              ELSE ScanMentions(content, i + 1)
         ELSE ScanMentions(content, i + 1)

\* extractMentions is a pure function of the content: it is computed once per
\* content the inputs can produce and looked up afterwards.
MentionsOf ==
    [content \in Contents \cup {d[1] : d \in AgentDoneInputs} \cup {Plain}
                    \cup Partials |->
        ScanMentions(content, 1)]

extractMentions(content) == MentionsOf[content]

InSeq(x, s) == \E k \in 1..Len(s) : s[k] = x

-----------------------------------------------------------------------------
(* Outbound events. *)

PromptAgent(id) == [type |-> "PromptAgent", arg |-> id]
WaitingForUser == [type |-> "WaitingForUser", arg |-> Nil]
ConversationCleared == [type |-> "ConversationCleared", arg |-> Nil]
FloorStopped == [type |-> "FloorStopped", arg |-> Nil]
SystemInfo(text) == [type |-> "SystemInfo", arg |-> text]

Frame(caller, callee) == [Caller |-> caller, Callee |-> callee]

FloorMessage(from, content, tools) ==
    [FromID |-> from, Content |-> content, ToolInteractions |-> tools]

-----------------------------------------------------------------------------
(* nextRecipient and its helpers. *)

\* getAgent: the index of the agent with this id, 0 when there is none.
getAgent(id) ==
    IF \E i \in 1..Len(Agents) : Agents[i].ID = id
    THEN CHOOSE i \in 1..Len(Agents) :
            /\ Agents[i].ID = id
            /\ \A j \in 1..(i - 1) : Agents[j].ID # id
    ELSE 0

\* shouldWake without the test that the agent sent the last message.
shouldWake_IgnoresSender(agent, lastMsg) ==
    IF agent.Activation = "always" THEN TRUE ELSE FALSE

\* shouldWake without the test of the activation mode.
shouldWake_IgnoresActivation(agent, lastMsg) ==
    IF lastMsg.FromID = agent.ID THEN FALSE ELSE TRUE

shouldWake(agent, lastMsg) ==
    IF lastMsg.FromID = agent.ID THEN FALSE
    ELSE IF agent.Activation = "always" THEN TRUE
    ELSE FALSE

\* The first index in blueprint order among the indices S, 0 when S is empty.
FirstAgent(S) ==
    IF S # {} THEN CHOOSE i \in S : \A j \in S : i <= j ELSE 0

\* s[:len(s)-1]; Go panics when s is empty.
DropTop(s) == SubSeq(s, 1, Len(s) - 1)
DropTopPanics(s) == Len(s) = 0

\* The @user rule firing only when @user is the first mention.
MentionsUserRule_FirstMentionOnly(lastMsg, mentions) ==
    lastMsg.FromID # User /\ Len(mentions) > 0 /\ mentions[1] = User

\* "0. If mentions @user (and not from @user), pause for user"
MentionsUserRule(lastMsg, mentions) ==
    lastMsg.FromID # User /\ InSeq(User, mentions)

\* Rule 1 with its loops swapped: the first mention in text order that names
\* an agent, instead of the first agent in blueprint order that is mentioned.
MentionedAgent_TextOrder(lastMsg, mentions, excluded) ==
    LET ok(k) == /\ getAgent(mentions[k]) # 0
                 /\ mentions[k] \notin excluded
                 /\ mentions[k] # lastMsg.FromID
    IN  IF \E k \in 1..Len(mentions) : ok(k)
        THEN getAgent(mentions[CHOOSE k \in 1..Len(mentions) :
                                   ok(k) /\ \A j \in 1..(k - 1) : ~ok(j)])
        ELSE 0

\* Rule 1 without the test of the pass-exclusion set.
MentionedAgent_IgnoresExcluded(lastMsg, mentions, excluded) ==
    FirstAgent({i \in 1..Len(Agents) :
        \E k \in 1..Len(mentions) :
            mentions[k] = Agents[i].ID /\ mentions[k] # lastMsg.FromID})

\* Rule 1 without the test that the mention is not the sender's own id.
MentionedAgent_AllowsSelf(lastMsg, mentions, excluded) ==
    FirstAgent({i \in 1..Len(Agents) :
        /\ Agents[i].ID \notin excluded
        /\ \E k \in 1..Len(mentions) : mentions[k] = Agents[i].ID})

\* "1. Explicit @mentions? -> push frame, wake mentioned agent": the agent
\* the outer loop over the blueprint returns, 0 when the loop runs out.
MentionedAgent(lastMsg, mentions, excluded) ==
    FirstAgent({i \in 1..Len(Agents) :
        /\ Agents[i].ID \notin excluded
        /\ \E k \in 1..Len(mentions) :
              mentions[k] = Agents[i].ID /\ mentions[k] # lastMsg.FromID})

\* "3. Poll shouldWake"
WokenAgent(lastMsg, excluded) ==
    FirstAgent({i \in 1..Len(Agents) :
        /\ Agents[i].ID \notin excluded
        /\ shouldWake(Agents[i], lastMsg)})

\* From "3. Poll shouldWake" to the end of nextRecipient.
PollShouldWake(lastMsg, stack, excluded, sofar) ==
    LET w == WokenAgent(lastMsg, excluded) IN
    IF w # 0
    THEN [next |-> Agents[w].ID, stack |-> stack,
          rules |-> Append(sofar, "shouldWake")]
    ELSE [next |-> Nil, stack |-> stack,
          rules |-> Append(sofar, "backToUser")]

\* Rule 2 without the return to @user: a frame called by @user is popped and
\* the poll of shouldWake follows.
PopCallStack_NoUserReturn(lastMsg, stack, excluded) ==
    IF Len(stack) > 0
    THEN LET frame == stack[Len(stack)]
             rest == DropTop(stack)
             caller == getAgent(frame.Caller)
         IN  IF caller # 0 /\ Agents[caller].ID \notin excluded
             THEN [next |-> Agents[caller].ID, stack |-> rest,
                   rules |-> <<"popStack">>]
             ELSE PollShouldWake(lastMsg, rest, excluded, <<"popStack">>)
    ELSE PollShouldWake(lastMsg, stack, excluded, <<>>)

\* "2. No mentions -> pop call stack (return to caller)" and what follows.
PopCallStack(lastMsg, stack, excluded) ==
    IF Len(stack) > 0
    THEN LET frame == stack[Len(stack)]
             rest == DropTop(stack)
             caller == getAgent(frame.Caller)
         IN  IF frame.Caller = User
             THEN [next |-> Nil, stack |-> rest, rules |-> <<"popStack">>]
             ELSE IF caller # 0 /\ Agents[caller].ID \notin excluded
                  THEN [next |-> Agents[caller].ID, stack |-> rest,
                        rules |-> <<"popStack">>]
                  ELSE PollShouldWake(lastMsg, rest, excluded, <<"popStack">>)
    ELSE PollShouldWake(lastMsg, stack, excluded, <<>>)

\* nextRecipient(excluded): the agent to prompt (Nil for nobody), the call
\* stack it leaves, and the branches it went through.
nextRecipient(msgs, stack, excluded) ==
    IF Len(msgs) = 0
    THEN [next |-> Nil, stack |-> stack, rules |-> <<"noMessages">>]
    ELSE LET lastMsg == msgs[Len(msgs)]
             mentions == extractMentions(lastMsg.Content)
             m == MentionedAgent(lastMsg, mentions, excluded)
         IN  IF MentionsUserRule(lastMsg, mentions)
             THEN [next |-> Nil, stack |-> stack, rules |-> <<"mentionsUser">>]
             ELSE IF m # 0
                  THEN [next |-> Agents[m].ID,
                        stack |-> Append(stack, Frame(lastMsg.FromID, Agents[m].ID)),
                        rules |-> <<"mention">>]
                  ELSE PopCallStack(lastMsg, stack, excluded)

\* advanceTurn: the events returned for nextRecipient's answer.
\* advanceTurn returning nothing when nextRecipient returns nil.
advanceTurnEvents_SilentOnNil(next) ==
    IF next = Nil THEN <<>> ELSE <<PromptAgent(next)>>

advanceTurnEvents(next) ==
    IF next = Nil THEN <<WaitingForUser>> ELSE <<PromptAgent(next)>>

-----------------------------------------------------------------------------
(* Inbound events and the handlers. *)

UserMessageEv(content) ==
    [type |-> "UserMessage", AgentID |-> Nil, Content |-> content,
     ToolInteractions |-> <<>>, Command |-> Nil]
AgentDoneEv(id, content, tools) ==
    [type |-> "AgentDone", AgentID |-> id, Content |-> content,
     ToolInteractions |-> tools, Command |-> Nil]
AgentPassedEv(id) ==
    [type |-> "AgentPassed", AgentID |-> id, Content |-> <<>>,
     ToolInteractions |-> <<>>, Command |-> Nil]
AgentErrorEv(id, partial) ==
    [type |-> "AgentError", AgentID |-> id, Content |-> partial,
     ToolInteractions |-> <<>>, Command |-> Nil]
UserCommandEv(cmd) ==
    [type |-> "UserCommand", AgentID |-> Nil, Content |-> <<>>,
     ToolInteractions |-> <<>>, Command |-> cmd]
OtherEv ==
    [type |-> "Other", AgentID |-> Nil, Content |-> <<>>,
     ToolInteractions |-> <<>>, Command |-> Nil]

TerminalTypes == {"AgentDone", "AgentPassed", "AgentError"}

HasPrompt(events) == \E k \in 1..Len(events) : events[k].type = "PromptAgent"

NumPrompts(events) ==
    Cardinality({k \in 1..Len(events) : events[k].type = "PromptAgent"})

\* The bookkeeping of unanswered prompts across one HandleEvent call.
NextUnanswered(e, events) ==
    LET n == (IF e.type \in TerminalTypes THEN 0 ELSE unanswered)
                 + NumPrompts(events)
    IN  IF n > 2 THEN 2 ELSE n

\* The bookkeeping of the sizes the call started from.
Sizes == [stack |-> Len(CallStack), passed |-> Cardinality(passedAgents)]

\* The tail every handler that ends in advanceTurn shares.
AdvanceTurn(e, msgs, stack, excluded) ==
    LET r == nextRecipient(msgs, stack, excluded) IN
    /\ Messages' = msgs
    /\ CallStack' = r.stack
    /\ passedAgents' = excluded
    /\ ev' = e
    /\ out' = advanceTurnEvents(r.next)
    /\ rules' = r.rules
    /\ before' = Sizes
    /\ unanswered' = NextUnanswered(e, advanceTurnEvents(r.next))

\* handleUserMessage resolving on the call stack as the last turn left it.
handleUserMessage_KeepsStack(content) ==
    /\ ~panicked
    /\ AdvanceTurn(UserMessageEv(content),
                   Append(Messages, FloorMessage(User, content, <<>>)),
                   CallStack, {})
    /\ UNCHANGED panicked

handleUserMessage(content) ==
    /\ ~panicked
    /\ AdvanceTurn(UserMessageEv(content),
                   Append(Messages, FloorMessage(User, content, <<>>)),
                   <<>>, {})
    /\ UNCHANGED panicked

\* handleAgentDone appending the message without its tool interactions.
handleAgentDone_DropsTools(id, content, tools) ==
    /\ ~panicked
    /\ AdvanceTurn(AgentDoneEv(id, content, tools),
                   Append(Messages, FloorMessage(id, content, <<>>)),
                   CallStack, {})
    /\ UNCHANGED panicked

\* handleAgentDone without the reset of passedAgents.
handleAgentDone_KeepsPassed(id, content, tools) ==
    /\ ~panicked
    /\ AdvanceTurn(AgentDoneEv(id, content, tools),
                   Append(Messages, FloorMessage(id, content, tools)),
                   CallStack, passedAgents)
    /\ UNCHANGED panicked

\* handleAgentDone popping the frame of the replying callee as
\* handleAgentPassed does.
handleAgentDone_PopsCallee(id, content, tools) ==
    /\ ~panicked
    /\ AdvanceTurn(AgentDoneEv(id, content, tools),
                   Append(Messages, FloorMessage(id, content, tools)),
                   IF Len(CallStack) > 0 /\ CallStack[Len(CallStack)].Callee = id
                   THEN DropTop(CallStack) ELSE CallStack,
                   {})
    /\ UNCHANGED panicked

handleAgentDone(id, content, tools) ==
    /\ ~panicked
    /\ AdvanceTurn(AgentDoneEv(id, content, tools),
                   Append(Messages, FloorMessage(id, content, tools)),
                   CallStack, {})
    /\ UNCHANGED panicked

\* handleAgentPassed without its pop.
PassedPopsTop_Never(stack, id) ==
    FALSE

\* The pop of handleAgentPassed without the test of the top frame's callee.
PassedPopsTop_AnyCallee(stack, id) ==
    Len(stack) > 0

\* "Pop frame if this agent was the callee on top of stack"
PassedPopsTop(stack, id) ==
    Len(stack) > 0 /\ stack[Len(stack)].Callee = id

\* handleAgentPassed without the entry of the passer in the exclusion set.
handleAgentPassed_ForgetsPasser(id) ==
    /\ ~panicked
    /\ LET pop == PassedPopsTop(CallStack, id)
           stack == IF pop THEN DropTop(CallStack) ELSE CallStack
       IN  /\ panicked' = (pop /\ DropTopPanics(CallStack))
           /\ AdvanceTurn(AgentPassedEv(id), Messages, stack, passedAgents)

handleAgentPassed(id) ==
    /\ ~panicked
    /\ LET pop == PassedPopsTop(CallStack, id)
           stack == IF pop THEN DropTop(CallStack) ELSE CallStack
       IN  /\ panicked' = (pop /\ DropTopPanics(CallStack))
           /\ AdvanceTurn(AgentPassedEv(id), Messages, stack,
                          passedAgents \cup {id})

\* handleAgentError appending the partial output to the transcript.
handleAgentError_AppendsPartial(id, partial) ==
    /\ ~panicked
    /\ ev' = AgentErrorEv(id, partial)
    /\ out' = <<SystemInfo(<<"ERROR from", id>>), WaitingForUser>>
    /\ rules' = <<>>
    /\ before' = Sizes
    /\ unanswered' = NextUnanswered(AgentErrorEv(id, partial), out')
    /\ Messages' = Append(Messages, FloorMessage(id, partial, <<>>))
    /\ UNCHANGED <<CallStack, passedAgents, panicked>>

\* handleAgentError resetting the call stack on its way back to the user.
handleAgentError_ClearsStack(id, partial) ==
    /\ ~panicked
    /\ ev' = AgentErrorEv(id, partial)
    /\ out' = <<SystemInfo(<<"ERROR from", id>>), WaitingForUser>>
    /\ rules' = <<>>
    /\ before' = Sizes
    /\ unanswered' = NextUnanswered(AgentErrorEv(id, partial), out')
    /\ CallStack' = <<>>
    /\ UNCHANGED <<Messages, passedAgents, panicked>>

handleAgentError(id, partial) ==
    /\ ~panicked
    /\ ev' = AgentErrorEv(id, partial)
    /\ out' = <<SystemInfo(<<"ERROR from", id>>), WaitingForUser>>
    /\ rules' = <<>>
    /\ before' = Sizes
    /\ unanswered' = NextUnanswered(AgentErrorEv(id, partial), out')
    /\ UNCHANGED <<Messages, CallStack, passedAgents, panicked>>

\* handleUserCommand with a /clear that forgets the transcript.
handleUserCommand_ClearKeepsTranscript(cmd) ==
    /\ ~panicked
    /\ ev' = UserCommandEv(cmd)
    /\ rules' = <<>>
    /\ IF cmd = "/quit"
       THEN /\ out' = <<FloorStopped>>
            /\ UNCHANGED <<Messages, CallStack, passedAgents>>
       ELSE IF cmd = "/clear"
            THEN /\ CallStack' = <<>>
                 /\ passedAgents' = {}
                 /\ out' = <<ConversationCleared>>
                 /\ UNCHANGED Messages
            ELSE /\ out' = <<SystemInfo(<<"Unknown command", cmd>>)>>
                 /\ UNCHANGED <<Messages, CallStack, passedAgents>>
    /\ before' = Sizes
    /\ unanswered' = NextUnanswered(UserCommandEv(cmd), out')
    /\ UNCHANGED panicked

\* handleUserCommand with a /clear that forgets the call stack.
handleUserCommand_ClearKeepsStack(cmd) ==
    /\ ~panicked
    /\ ev' = UserCommandEv(cmd)
    /\ rules' = <<>>
    /\ IF cmd = "/quit"
       THEN /\ out' = <<FloorStopped>>
            /\ UNCHANGED <<Messages, CallStack, passedAgents>>
       ELSE IF cmd = "/clear"
            THEN /\ Messages' = <<>>
                 /\ passedAgents' = {}
                 /\ out' = <<ConversationCleared>>
                 /\ UNCHANGED CallStack
            ELSE /\ out' = <<SystemInfo(<<"Unknown command", cmd>>)>>
                 /\ UNCHANGED <<Messages, CallStack, passedAgents>>
    /\ before' = Sizes
    /\ unanswered' = NextUnanswered(UserCommandEv(cmd), out')
    /\ UNCHANGED panicked

\* handleUserCommand with an unknown command going on to advanceTurn.
handleUserCommand_UnknownAdvances(cmd) ==
    /\ ~panicked
    /\ IF cmd = "/quit"
       THEN /\ ev' = UserCommandEv(cmd)
            /\ rules' = <<>>
            /\ out' = <<FloorStopped>>
            /\ before' = Sizes
            /\ unanswered' = NextUnanswered(UserCommandEv(cmd), out')
            /\ UNCHANGED <<Messages, CallStack, passedAgents>>
       ELSE IF cmd = "/clear"
            THEN /\ ev' = UserCommandEv(cmd)
                 /\ rules' = <<>>
                 /\ Messages' = <<>>
                 /\ CallStack' = <<>>
                 /\ passedAgents' = {}
                 /\ out' = <<ConversationCleared>>
                 /\ before' = Sizes
                 /\ unanswered' = NextUnanswered(UserCommandEv(cmd), out')
            ELSE AdvanceTurn(UserCommandEv(cmd), Messages, CallStack,
                             passedAgents)
    /\ UNCHANGED panicked

handleUserCommand(cmd) ==
    /\ ~panicked
    /\ ev' = UserCommandEv(cmd)
    /\ rules' = <<>>
    /\ IF cmd = "/quit"
       THEN /\ out' = <<FloorStopped>>
            /\ UNCHANGED <<Messages, CallStack, passedAgents>>
       ELSE IF cmd = "/clear"
            THEN /\ Messages' = <<>>
                 /\ CallStack' = <<>>
                 /\ passedAgents' = {}
                 /\ out' = <<ConversationCleared>>
            ELSE /\ out' = <<SystemInfo(<<"Unknown command", cmd>>)>>
                 /\ UNCHANGED <<Messages, CallStack, passedAgents>>
    /\ before' = Sizes
    /\ unanswered' = NextUnanswered(UserCommandEv(cmd), out')
    /\ UNCHANGED panicked

\* HandleEvent's default branch: an event that is no inbound event.
handleOther ==
    /\ ~panicked
    /\ ev' = OtherEv
    /\ out' = <<>>
    /\ rules' = <<>>
    /\ before' = Sizes
    /\ unanswered' = NextUnanswered(OtherEv, out')
    /\ UNCHANGED <<Messages, CallStack, passedAgents, panicked>>

-----------------------------------------------------------------------------
(* HandleEvent as a function of the Controller it is called on, for running *)
(* a second Controller beside the first.                                    *)

\* NewController: no message, no frame, an empty passedAgents map.
NewController ==
    [on |-> TRUE, Messages |-> <<>>, CallStack |-> <<>>, passedAgents |-> {},
     out |-> <<>>]

\* advanceTurn on Controller c.
advanceTurn(c) ==
    LET r == nextRecipient(c.Messages, c.CallStack, c.passedAgents) IN
    [c EXCEPT !.CallStack = r.stack, !.out = advanceTurnEvents(r.next)]

\* HandleEvent(e) on Controller c: c afterwards, out being what it returns.
HandleEvent(c, e) ==
    IF e.type = "UserMessage"
    THEN advanceTurn([c EXCEPT
             !.Messages = Append(@, FloorMessage(User, e.Content, <<>>)),
             !.CallStack = <<>>,
             !.passedAgents = {}])
    ELSE IF e.type = "AgentDone"
    THEN advanceTurn([c EXCEPT
             !.Messages = Append(@, FloorMessage(e.AgentID, e.Content,
                                                 e.ToolInteractions)),
             !.passedAgents = {}])
    ELSE IF e.type = "AgentPassed"
    THEN advanceTurn([c EXCEPT
             !.CallStack = IF PassedPopsTop(@, e.AgentID) THEN DropTop(@) ELSE @,
             !.passedAgents = @ \cup {e.AgentID}])
    ELSE IF e.type = "AgentError"
    THEN [c EXCEPT !.out = <<SystemInfo(<<"ERROR from", e.AgentID>>),
                            WaitingForUser>>]
    ELSE IF e.type = "UserCommand"
    THEN IF e.Command = "/quit" THEN [c EXCEPT !.out = <<FloorStopped>>]
         ELSE IF e.Command = "/clear"
         THEN [c EXCEPT !.Messages = <<>>, !.CallStack = <<>>,
                        !.passedAgents = {}, !.out = <<ConversationCleared>>]
         ELSE [c EXCEPT !.out = <<SystemInfo(<<"Unknown command", e.Command>>)>>]
    ELSE [c EXCEPT !.out = <<>>]

-----------------------------------------------------------------------------

\* The Coordinator before Run is called: no goroutine of Run yet, the
\* frontend's channel empty, no runner.  arg is the event Run is about to
\* pass or is passing to HandleEvent, frames the activations of
\* processEvents (the events each has still to go through, innermost last),
\* handling the HandleEvent calls that have begun and not returned, runners
\* the runners that have begun and not returned, agent the id runAgent was
\* last called with; dispatched counts the runAgent calls and read records a
\* ReadInput since the latest return of HandleEvent.
NewCoordinatorWith ==
    [pc |-> "main", tui |-> FALSE, oneShot |-> FALSE, inputCh |-> <<>>,
     arg |-> OtherEv, frames |-> <<>>, handling |-> 0, runners |-> 0,
     agent |-> Nil, dispatched |-> 0, read |-> FALSE]

\* No runner at work.  fullResponse and interactions are Run's local
\* variables (LLMRunner) or the client's ResponseText and Interactions
\* (ACPRunner), i is LLMRunner's loop counter, toolCalls the client's map of
\* announced tool calls; said and did are what the agent streamed and the
\* tool interactions that took place since Run was called, err is set when
\* Run returned from one of its error branches, result is the RunnerResult's
\* event, requests counts the calls of ChatStream since Run was called.
NoTurn ==
    [runner |-> "none", pc |-> "idle", agent |-> Nil, fullResponse |-> <<>>,
     interactions |-> <<>>, i |-> 0, toolCalls |-> <<>>, said |-> <<>>,
     did |-> <<>>, err |-> FALSE, result |-> OtherEv, requests |-> 0]

\* NewTaskBoard, unlocked, before any call.  last is the latest call that
\* returned: tool name, arguments, result and error ("" for nil); writer and
\* readers are the state of mu.  serial is a board of reference: the calls
\* made by several goroutines are applied to it one at a time, each whole,
\* at the moment it gets the lock (or fails before asking for it).
NewTaskBoard ==
    [tasks |-> <<>>, nextID |-> 1, writer |-> FALSE, readers |-> 0,
     last |-> [tool |-> Nil, args |-> <<>>, result |-> Nil, err |-> ""],
     serial |-> [tasks |-> <<>>, nextID |-> 1]]

\* The goroutines that call the board at the same time.
NumCallers == 2

\* A goroutine outside any call.  tool and args are the call it is in or
\* was in last, id, i and task the locals of that call, result and err what
\* it returned; lin is what the call returned on the board of reference, and
\* overlap the goroutines that were in a call during some of this one.
NoCall ==
    [pc |-> "idle", tool |-> Nil, args |-> <<>>, id |-> 0, i |-> 0,
     task |-> Nil, result |-> Nil, err |-> "",
     lin |-> [result |-> Nil, err |-> ""], overlap |-> {}]

\* The largest stream index a fragment may carry.
MaxIndex == 2

\* make(map[int]*ToolCall), as a function that says which indices it holds.
NoStream ==
    [pc |-> "reading", received |-> <<>>, result |-> <<>>,
     toolCalls |-> [i \in 0..MaxIndex |->
                      [exists |-> FALSE, ID |-> "", Type |-> "", Name |-> "",
                       Arguments |-> <<>>]]]

\* NewTerminalManager(s): no terminal yet.  sandbox says whether s is set.
\* terms holds every Terminal made, the one of id "term-k" at position k;
\* terminals holds the keys of the map; call is the latest call of a method
\* of the manager.  A Terminal's code is the status its process ended with
\* (-1 while it runs, and when it was killed or never started).
NewTerminalManager(s) ==
    [sandbox |-> s, nextID |-> 0, terms |-> <<>>, terminals |-> {},
     call |-> [op |-> "none", id |-> 0, pc |-> "returned", found |-> FALSE,
               exit |-> 0]]

\* newCoordinator for a blueprint not yet chosen: no sandbox, no session.
\* sandbox is "none", "started" or "stopped"; child[k] is the process of
\* the k-th agent: "none", "running" or "killed"; sessions holds the keys
\* of co.sessions; k is the position of Start's loop over the agents.
NoFloor ==
    [pc |-> "new", bp |-> [sandbox |-> FALSE, agents |-> <<>>],
     sandbox |-> "none", child |-> <<>>, sessions |-> {}, k |-> 0,
     err |-> FALSE]

\* NewFloorClient, with the two threads that use the client: the runner
\* (ACPRunner.Run) and the handler of a session/update notification.  mu is
\* the thread that holds c.mu ("" for none); u is the update the handler is
\* at; accesses records each read and write of ResponseText, Interactions
\* and toolCalls with the holder of mu at that moment; read is what Run has
\* read from the client; updates counts the notifications of the prompt.
NewFloorClient ==
    [mu |-> "", ResponseText |-> <<>>, Interactions |-> <<>>,
     toolCalls |-> {}, runner |-> "idle", notify |-> "idle", u |-> "",
     prompts |-> 0, updates |-> 0, accesses |-> {},
     read |-> [ResponseText |-> <<>>, Interactions |-> <<>>]]

\* A native runner before any turn: no runner set up (r), no tool calls
\* received (calls), none expanded, no tool invoked, nothing recorded.
\* expanded and invoked hold one sequence for each tool call of the response.
\* events is what went to r.Stream for the response, in order, with a mark
\* ("called") where a tool or the sandbox was called.
NoToolCalls ==
    [pc |-> "idle", r |-> [Furniture |-> <<>>, Sandbox |-> FALSE],
     calls |-> <<>>, expanded |-> <<>>, invoked |-> <<>>,
     interactions |-> <<>>, messages |-> <<>>, events |-> <<>>]

Init ==
    /\ Messages = <<>>
    /\ CallStack = <<>>
    /\ passedAgents = {}
    /\ ev = OtherEv
    /\ out = <<>>
    /\ rules = <<>>
    /\ before = [stack |-> 0, passed |-> 0]
    /\ unanswered = 0
    /\ panicked = FALSE
    /\ fresh = [NewController EXCEPT !.on = FALSE]
    /\ co = NewCoordinatorWith
    /\ turn = NoTurn
    /\ tb = NewTaskBoard
    /\ callers = [p \in 1..NumCallers |-> NoCall]
    /\ tool = NoToolCalls
    /\ tm = NewTerminalManager(FALSE)
    /\ stream = NoStream
    /\ floor = NoFloor
    /\ client = NewFloorClient

\* The Controller on its own: HandleEvent is given any event at any time.
Next ==
    \/ \E content \in Contents :
          Len(Messages) < MaxMsgs /\ handleUserMessage(content)
          /\ UNCHANGED <<fresh, co, turn, tb, callers, tool,
                         tm, stream, floor, client>>
    \/ \E id \in SenderIDs, d \in AgentDoneInputs :
          Len(Messages) < MaxMsgs /\ handleAgentDone(id, d[1], d[2])
          /\ UNCHANGED <<fresh, co, turn, tb, callers, tool,
                         tm, stream, floor, client>>
    \/ \E id \in SenderIDs :
          handleAgentPassed(id) /\ Len(CallStack') <= MaxStack
          /\ UNCHANGED <<fresh, co, turn, tb, callers, tool,
                         tm, stream, floor, client>>
    \/ \E id \in SenderIDs, partial \in Partials :
          handleAgentError(id, partial) /\ UNCHANGED <<fresh, co, turn, tb, callers, tool,
                                                       tm, stream, floor, client>>
    \/ \E cmd \in Commands : handleUserCommand(cmd) /\ UNCHANGED <<fresh, co, turn, tb, callers, tool,
                                                                   tm, stream, floor, client>>
    \/ handleOther /\ UNCHANGED <<fresh, co, turn, tb, callers, tool,
                                  tm, stream, floor, client>>

Spec == Init /\ [][Next]_vars

-----------------------------------------------------------------------------
(* The Controller as Coordinator.Run drives it: ReadInput supplies a       *)
(* UserMessage or a UserCommand; processEvents runs the agent of every     *)
(* PromptAgent and feeds the runner's result event back before anything    *)
(* else; FloorStopped ends the loop.                                       *)

Stopped == \E k \in 1..Len(out) : out[k].type = "FloorStopped"

\* processEvents is running the agent of a PromptAgent.
AgentTurn == HasPrompt(out)

\* The agent whose runner is running.
Prompted == CHOOSE id \in SenderIDs : id \in {out[k].arg : k \in 1..Len(out)}

\* Run is blocked in ReadInput.
UserTurn == ~AgentTurn /\ ~Stopped

NextCoordinator ==
    \/ \E content \in Contents :
          UserTurn /\ Len(Messages) < MaxFloorMsgs /\ handleUserMessage(content)
          /\ UNCHANGED <<fresh, co, turn, tb, callers, tool,
                         tm, stream, floor, client>>
    \/ \E cmd \in Commands :
          UserTurn /\ handleUserCommand(cmd) /\ UNCHANGED <<fresh, co, turn, tb, callers, tool,
                                                            tm, stream, floor, client>>
    \/ \E d \in AgentDoneInputs :
          /\ AgentTurn
          /\ Len(Messages) < MaxFloorMsgs
          /\ handleAgentDone(Prompted, d[1], d[2])
          /\ UNCHANGED <<fresh, co, turn, tb, callers, tool,
                         tm, stream, floor, client>>
    \/ AgentTurn /\ handleAgentPassed(Prompted) /\ UNCHANGED <<fresh, co, turn, tb, callers, tool,
                                                               tm, stream, floor, client>>
    \/ \E partial \in Partials :
          AgentTurn /\ handleAgentError(Prompted, partial) /\ UNCHANGED <<fresh, co, turn, tb, callers, tool,
                                                                          tm, stream, floor, client>>

SpecCoordinator == Init /\ [][NextCoordinator]_vars

\* The same run with a transcript bound of its own, for the properties of
\* whole delegation chains.
NextCoordinatorFair ==
    \/ \E content \in Contents :
          UserTurn /\ Len(Messages) < MaxChainMsgs /\ handleUserMessage(content)
          /\ UNCHANGED <<fresh, co, turn, tb, callers, tool,
                         tm, stream, floor, client>>
    \/ \E cmd \in Commands :
          UserTurn /\ handleUserCommand(cmd) /\ UNCHANGED <<fresh, co, turn, tb, callers, tool,
                                                            tm, stream, floor, client>>
    \/ \E d \in AgentDoneInputs :
          /\ AgentTurn
          /\ Len(Messages) < MaxChainMsgs
          /\ handleAgentDone(Prompted, d[1], d[2])
          /\ UNCHANGED <<fresh, co, turn, tb, callers, tool,
                         tm, stream, floor, client>>
    \/ AgentTurn /\ handleAgentPassed(Prompted) /\ UNCHANGED <<fresh, co, turn, tb, callers, tool,
                                                               tm, stream, floor, client>>
    \/ \E partial \in Partials :
          AgentTurn /\ handleAgentError(Prompted, partial) /\ UNCHANGED <<fresh, co, turn, tb, callers, tool,
                                                                          tm, stream, floor, client>>

\* processEvents feeds the controller the RunnerResult of the agent it ran.
AgentStep ==
    /\ AgentTurn
    /\ \/ \E d \in AgentDoneInputs :
             /\ Len(Messages) < MaxChainMsgs
             /\ handleAgentDone(Prompted, d[1], d[2])
       \/ handleAgentPassed(Prompted)
       \/ \E partial \in Partials : handleAgentError(Prompted, partial)
    /\ UNCHANGED <<fresh, co, turn, tb, callers, tool,
                   tm, stream, floor, client>>

\* Every runner that is started returns: runAgent is a blocking call whose
\* RunnerResult processEvents hands to HandleEvent.
SpecCoordinatorFair ==
    Init /\ [][NextCoordinatorFair]_vars /\ WF_vars(AgentStep)

-----------------------------------------------------------------------------
(* Two Controllers side by side: the first is given any event at any time;  *)
(* when it is given /clear, a second one is made by NewController, and from  *)
(* then on every event goes to both.                                         *)

\* The second Controller after the first has processed event e.
FreshAfter(e) ==
    IF e.type = "UserCommand" /\ e.Command = "/clear" THEN NewController
    ELSE IF fresh.on THEN HandleEvent(fresh, e)
    ELSE fresh

\* The agents events come from here: one that can be woken and one that can
\* only be mentioned.
ClearSenderIDs == {"@a", "@b"}

NextClear ==
    \/ \E content \in Contents :
          /\ Len(Messages) < MaxMsgs
          /\ handleUserMessage(content)
          /\ fresh' = FreshAfter(UserMessageEv(content))
          /\ UNCHANGED <<co, turn, tb, callers, tool,
                         tm, stream, floor, client>>
    \/ \E id \in ClearSenderIDs, d \in AgentDoneInputs :
          /\ Len(Messages) < MaxMsgs
          /\ handleAgentDone(id, d[1], d[2])
          /\ fresh' = FreshAfter(AgentDoneEv(id, d[1], d[2]))
          /\ UNCHANGED <<co, turn, tb, callers, tool,
                         tm, stream, floor, client>>
    \/ \E id \in ClearSenderIDs :
          /\ handleAgentPassed(id)
          /\ Len(CallStack') <= MaxStack
          /\ fresh' = FreshAfter(AgentPassedEv(id))
          /\ UNCHANGED <<co, turn, tb, callers, tool,
                         tm, stream, floor, client>>
    \/ \E id \in ClearSenderIDs, partial \in Partials :
          /\ handleAgentError(id, partial)
          /\ fresh' = FreshAfter(AgentErrorEv(id, partial))
          /\ UNCHANGED <<co, turn, tb, callers, tool,
                         tm, stream, floor, client>>
    \/ \E cmd \in Commands :
          /\ handleUserCommand(cmd)
          /\ fresh' = FreshAfter(UserCommandEv(cmd))
          /\ UNCHANGED <<co, turn, tb, callers, tool,
                         tm, stream, floor, client>>
    \/ handleOther /\ fresh' = FreshAfter(OtherEv) /\ UNCHANGED <<co, turn, tb, callers, tool,
                                                                  tm, stream, floor, client>>

SpecClear == Init /\ [][NextClear]_vars

-----------------------------------------------------------------------------
(* Coordinator.Run step by step, with the frontend beside it.  In the CLI   *)
(* the goroutine of Run reads the terminal itself; in the TUI Bubble Tea    *)
(* owns the main thread and Run has a goroutine of its own, the two sharing *)
(* only the input channel.                                                  *)

\* The transcript bound of the step-by-step run.
MaxRunMsgs == 2

\* make(chan Event, 1)
InputChCap == 1

\* What a line of user input becomes: a UserCommand when it starts with "/",
\* a UserMessage otherwise.
UserInputs ==
    {UserMessageEv(c) : c \in Contents} \cup {UserCommandEv(cmd) : cmd \in Commands}

\* What a runner can return for the agent it ran.
RunnerResults(id) ==
    {AgentDoneEv(id, d[1], d[2]) : d \in AgentDoneInputs}
        \cup {AgentPassedEv(id)}
        \cup {AgentErrorEv(id, partial) : partial \in Partials}

\* The transcript bound applied to an event that will append a message.
WithinRunBound(e) ==
    e.type \in {"UserMessage", "AgentDone"} => Len(Messages) < MaxRunMsgs

\* HandleEvent's type switch on the event it is called with.
Deliver(e) ==
    \/ e.type = "UserMessage" /\ handleUserMessage(e.Content)
    \/ e.type = "AgentDone"
          /\ handleAgentDone(e.AgentID, e.Content, e.ToolInteractions)
    \/ e.type = "AgentPassed" /\ handleAgentPassed(e.AgentID)
    \/ e.type = "AgentError" /\ handleAgentError(e.AgentID, e.Content)
    \/ e.type = "UserCommand" /\ handleUserCommand(e.Command)

\* The run command: the CLI calls Run on the main goroutine, runTUI starts it
\* with "go"; with an initial prompt Run handles that one message and returns.
runCLI ==
    /\ co.pc = "main"
    /\ \/ co' = [co EXCEPT !.pc = "ReadInput"]
       \/ \E c \in Contents :
             co' = [co EXCEPT !.pc = "HandleEvent", !.oneShot = TRUE,
                              !.arg = UserMessageEv(c)]
    /\ UNCHANGED <<Messages, CallStack, passedAgents, ev, out, rules, before,
                   unanswered, panicked, fresh, turn, tb,
                   callers, tool, tm, stream, floor, client>>

runTUI ==
    /\ co.pc = "main"
    /\ \/ co' = [co EXCEPT !.pc = "ReadInput", !.tui = TRUE]
       \/ \E c \in Contents :
             co' = [co EXCEPT !.pc = "HandleEvent", !.tui = TRUE,
                              !.oneShot = TRUE, !.arg = UserMessageEv(c)]
    /\ UNCHANGED <<Messages, CallStack, passedAgents, ev, out, rules, before,
                   unanswered, panicked, fresh, turn, tb,
                   callers, tool, tm, stream, floor, client>>

\* tuiModel.Update on Enter, Ctrl-C or Esc, on the main thread at any time:
\* a send that does not block, so the event is dropped when the channel is
\* full.
KeyEnter(e) ==
    /\ co.tui
    /\ co.pc # "returned"
    /\ WithinRunBound(e)
    /\ co' = [co EXCEPT !.inputCh = IF Len(@) < InputChCap THEN Append(@, e)
                                    ELSE @]
    /\ UNCHANGED <<Messages, CallStack, passedAgents, ev, out, rules, before,
                   unanswered, panicked, fresh, turn, tb,
                   callers, tool, tm, stream, floor, client>>

\* Run's loop reads before the runner it started has returned.
ReadInput_WhileRunnerRuns(e) ==
    /\ co.pc \in {"ReadInput", "runAgent"}
    /\ IF co.tui THEN co.inputCh # <<>> /\ e = Head(co.inputCh)
       ELSE WithinRunBound(e)
    /\ co' = [co EXCEPT !.pc = "HandleEvent", !.arg = e, !.read = TRUE,
                        !.inputCh = IF co.tui THEN Tail(@) ELSE @]
    /\ UNCHANGED <<Messages, CallStack, passedAgents, ev, out, rules, before,
                   unanswered, panicked, fresh, turn, tb,
                   callers, tool, tm, stream, floor, client>>

\* Run's loop at co.frontend.ReadInput(): CLIFrontend reads a line,
\* TUIFrontend receives from the channel and blocks while it is empty.
ReadInput(e) ==
    /\ co.pc = "ReadInput"
    /\ IF co.tui THEN co.inputCh # <<>> /\ e = Head(co.inputCh)
       ELSE WithinRunBound(e)
    /\ co' = [co EXCEPT !.pc = "HandleEvent", !.arg = e, !.read = TRUE,
                        !.inputCh = IF co.tui THEN Tail(@) ELSE @]
    /\ UNCHANGED <<Messages, CallStack, passedAgents, ev, out, rules, before,
                   unanswered, panicked, fresh, turn, tb,
                   callers, tool, tm, stream, floor, client>>

\* ReadInput returns an error (end of input in the CLI): Run breaks.
ReadInputEOF ==
    /\ co.pc = "ReadInput"
    /\ ~co.tui
    /\ co' = [co EXCEPT !.pc = "returned", !.read = TRUE]
    /\ UNCHANGED <<Messages, CallStack, passedAgents, ev, out, rules, before,
                   unanswered, panicked, fresh, turn, tb,
                   callers, tool, tm, stream, floor, client>>

\* co.ctrl.HandleEvent(...) is entered.
HandleEventCall ==
    /\ co.pc = "HandleEvent"
    /\ co' = [co EXCEPT !.pc = "inHandleEvent", !.handling = @ + 1]
    /\ UNCHANGED <<Messages, CallStack, passedAgents, ev, out, rules, before,
                   unanswered, panicked, fresh, turn, tb,
                   callers, tool, tm, stream, floor, client>>

\* It returns its events, and processEvents is called with them.
HandleEventReturn ==
    /\ co.pc = "inHandleEvent"
    /\ Deliver(co.arg)
    /\ co' = [co EXCEPT !.pc = "processEvents", !.handling = @ - 1,
                        !.frames = Append(@, out'), !.dispatched = 0,
                        !.read = FALSE]
    /\ UNCHANGED <<fresh, turn, tb, callers, tool, tm, stream, floor, client>>

\* The events the innermost processEvents has still to go through.
Remaining == co.frames[Len(co.frames)]

\* processEvents on an event that is only rendered.
processEventsRender ==
    /\ co.pc = "processEvents"
    /\ Remaining # <<>>
    /\ Head(Remaining).type \notin {"PromptAgent", "FloorStopped"}
    /\ co' = [co EXCEPT !.frames[Len(co.frames)] = Tail(@)]
    /\ UNCHANGED <<Messages, CallStack, passedAgents, ev, out, rules, before,
                   unanswered, panicked, fresh, turn, tb,
                   callers, tool, tm, stream, floor, client>>

\* processEvents on a PromptAgent: runAgent is called and the goroutine
\* stays in it until the runner returns.
processEventsPromptAgent ==
    /\ co.pc = "processEvents"
    /\ Remaining # <<>>
    /\ Head(Remaining).type = "PromptAgent"
    /\ co' = [co EXCEPT !.pc = "runAgent", !.frames[Len(co.frames)] = Tail(@),
                        !.agent = Head(Remaining).arg, !.runners = @ + 1,
                        !.dispatched = IF @ < 2 THEN @ + 1 ELSE @]
    /\ UNCHANGED <<Messages, CallStack, passedAgents, ev, out, rules, before,
                   unanswered, panicked, fresh, turn, tb,
                   callers, tool, tm, stream, floor, client>>

\* runner.Run returns its RunnerResult; its event is what HandleEvent is
\* called with next.
runAgent(result) ==
    /\ co.pc = "runAgent"
    /\ result \in RunnerResults(co.agent)
    /\ WithinRunBound(result)
    /\ co' = [co EXCEPT !.pc = "HandleEvent", !.arg = result,
                        !.runners = @ - 1]
    /\ UNCHANGED <<Messages, CallStack, passedAgents, ev, out, rules, before,
                   unanswered, panicked, fresh, turn, tb,
                   callers, tool, tm, stream, floor, client>>

\* processEvents on FloorStopped: it returns true, and so does every
\* processEvents above it; Run breaks.
processEventsFloorStopped ==
    /\ co.pc = "processEvents"
    /\ Remaining # <<>>
    /\ Head(Remaining).type = "FloorStopped"
    /\ co' = [co EXCEPT !.pc = "returned", !.frames = <<>>]
    /\ UNCHANGED <<Messages, CallStack, passedAgents, ev, out, rules, before,
                   unanswered, panicked, fresh, turn, tb,
                   callers, tool, tm, stream, floor, client>>

\* processEvents is through its events and returns false: into the
\* processEvents that called it, or into Run, which loops or, after an
\* initial prompt, returns.
processEventsReturn ==
    /\ co.pc = "processEvents"
    /\ Remaining = <<>>
    /\ co' = [co EXCEPT !.frames = DropTop(@),
                        !.pc = IF Len(co.frames) > 1 THEN "processEvents"
                               ELSE IF co.oneShot THEN "returned"
                               ELSE "ReadInput"]
    /\ UNCHANGED <<Messages, CallStack, passedAgents, ev, out, rules, before,
                   unanswered, panicked, fresh, turn, tb,
                   callers, tool, tm, stream, floor, client>>

NextRun ==
    \/ runCLI
    \/ runTUI
    \/ \E e \in UserInputs : KeyEnter(e)
    \/ \E e \in UserInputs : ReadInput(e)
    \/ ReadInputEOF
    \/ HandleEventCall
    \/ HandleEventReturn
    \/ processEventsRender
    \/ processEventsPromptAgent
    \/ \E id \in AgentIDs : \E result \in RunnerResults(id) : runAgent(result)
    \/ processEventsFloorStopped
    \/ processEventsReturn

SpecRun == Init /\ [][NextRun]_vars

-----------------------------------------------------------------------------
(* One agent turn inside a runner: LLMRunner.Run with its loop over chat    *)
(* requests, ACPRunner.Run with the session updates the agent sends while   *)
(* the prompt is out.  Contents are sequences of characters here.           *)

\* The accumulated response a turn may reach, in characters.
MaxTurnChars == 8

\* The tool interactions an ACP agent may complete in a turn.
MaxTurnTools == 2

\* maxIterations := 10
maxIterations == 10

\* What one chat request, or one agent message chunk, adds to the response.
TurnChunks ==
    { <<>>,
      <<"o", "k">>,
      <<"[", "P", "a">>,
      <<"S", "s", "]">>,
      <<"[", "p", "a", "s", "s", "]">> }

\* The tool calls of one chat result: none, or a bash call followed by a
\* furniture call whose arguments are two concatenated JSON objects.
LLMToolCalls ==
    { <<>>,
      << [Title |-> "ls", Outputs |-> <<"f">>],
         [Title |-> "desk.add", Outputs |-> <<"1", "2">>] >> }

\* The session updates of an ACP agent.
SessionUpdates ==
    {[kind |-> "AgentMessageChunk", text |-> c, id |-> Nil, title |-> Nil,
      completed |-> FALSE, output |-> Nil] : c \in TurnChunks}
        \cup {[kind |-> "ToolCall", text |-> <<>>, id |-> "t1", title |-> "ls",
               completed |-> FALSE, output |-> Nil]}
        \cup {[kind |-> "ToolCallUpdate", text |-> <<>>, id |-> "t1",
               title |-> Nil, completed |-> b, output |-> "f"]
                  : b \in BOOLEAN}
        \cup {[kind |-> "AgentThoughtChunk", text |-> <<>>, id |-> Nil,
               title |-> Nil, completed |-> FALSE, output |-> Nil]}

\* strings.ToLower, on the characters contents are made of here.
ToLowerChar(ch) ==
    CASE ch = "P" -> "p"
      [] ch = "A" -> "a"
      [] ch = "S" -> "s"
      [] OTHER -> ch

\* Contents compared as they are.
ToLower_KeepsCase(content) == content

ToLower(content) == [k \in 1..Len(content) |-> ToLowerChar(content[k])]

\* strings.Contains
StringsContains(content, substr) ==
    \E k \in 0..(Len(content) - Len(substr)) :
        SubSeq(content, k + 1, k + Len(substr)) = substr

PassToken == <<"[", "p", "a", "s", "s", "]">>

\* dispatchToolCall: one expandedCall for each JSON object of the arguments.
dispatchToolCall(tc) ==
    [k \in 1..Len(tc.Outputs) |-> [Command |-> tc.Title, Output |-> tc.Outputs[k]]]

RECURSIVE expandToolCalls(_)
expandToolCalls(toolCalls) ==
    IF toolCalls = <<>> THEN <<>>
    ELSE dispatchToolCall(Head(toolCalls)) \o expandToolCalls(Tail(toolCalls))

\* LLMRunner.Run is called: an empty builder, no interactions.
LLMRunnerRun(id) ==
    /\ turn.pc \in {"idle", "returned"}
    /\ turn' = [NoTurn EXCEPT !.runner = "llm", !.pc = "loop", !.agent = id]
    /\ UNCHANGED <<Messages, CallStack, passedAgents, ev, out, rules, before,
                   unanswered, panicked, fresh, co, tb, callers, tool,
                   tm, stream, floor, client>>

\* The loop going on for ever while there are tool calls.
loopCondition_NoLimit(i) == TRUE

\* i < maxIterations
loopCondition(i) == i < maxIterations

\* One iteration whose ChatStream succeeds: the content is added to the
\* response; without tool calls the loop ends, with them they are carried
\* out and recorded, and the loop goes on unless this was the last iteration.
ChatStream(content, toolCalls) ==
    /\ turn.runner = "llm"
    /\ turn.pc = "loop"
    /\ Len(turn.fullResponse) + Len(content) <= MaxTurnChars
    /\ turn' =
          IF toolCalls = <<>>
          THEN [turn EXCEPT !.fullResponse = @ \o content,
                            !.said = @ \o content,
                            !.requests = @ + 1,
                            !.pc = "check"]
          ELSE [turn EXCEPT !.fullResponse = @ \o content,
                            !.said = @ \o content,
                            !.interactions = @ \o expandToolCalls(toolCalls),
                            !.did = @ \o expandToolCalls(toolCalls),
                            !.i = @ + 1,
                            !.requests = @ + 1,
                            !.pc = IF loopCondition(turn.i + 1) THEN "loop"
                                   ELSE "check"]
    /\ UNCHANGED <<Messages, CallStack, passedAgents, ev, out, rules, before,
                   unanswered, panicked, fresh, co, tb, callers, tool,
                   tm, stream, floor, client>>

\* One iteration whose ChatStream fails.  content is what the stream
\* delivered before: nothing when the request or its status failed, the
\* deltas read so far when reading the stream failed.  Each delta has gone
\* to onToken; ChatStream returns them beside err, and Run takes its partial
\* from fullResponse, to which it adds a result's content only after the
\* test of err.
ChatStreamError(content) ==
    /\ turn.runner = "llm"
    /\ turn.pc = "loop"
    /\ Len(turn.fullResponse) + Len(content) <= MaxTurnChars
    /\ turn' = [turn EXCEPT !.pc = "returned", !.err = TRUE,
                            !.said = @ \o content,
                            !.requests = @ + 1,
                            !.result = AgentErrorEv(turn.agent, turn.fullResponse)]
    /\ UNCHANGED <<Messages, CallStack, passedAgents, ev, out, rules, before,
                   unanswered, panicked, fresh, co, tb, callers, tool,
                   tm, stream, floor, client>>

\* After the loop: the check for [PASS] and the RunnerResult.
LLMRunnerReturn ==
    /\ turn.runner = "llm"
    /\ turn.pc = "check"
    /\ LET content == turn.fullResponse IN
       turn' = [turn EXCEPT
                   !.pc = "returned",
                   !.result = IF StringsContains(ToLower(content), PassToken)
                              THEN AgentPassedEv(turn.agent)
                              ELSE AgentDoneEv(turn.agent, content,
                                               turn.interactions)]
    /\ UNCHANGED <<Messages, CallStack, passedAgents, ev, out, rules, before,
                   unanswered, panicked, fresh, co, tb, callers, tool,
                   tm, stream, floor, client>>

\* FloorClient.Reset
Reset(t) ==
    [t EXCEPT !.fullResponse = <<>>, !.interactions = <<>>, !.toolCalls = <<>>]

\* ACPRunner.Run is called and sends the prompt.  The agent has a session:
\* Coordinator.Start makes one for every acp agent or fails, and runAgent
\* gives ACPRunner acp agents only.  The session's client is the one of the
\* agent's turn before.
ACPRunnerRun(id) ==
    /\ turn.pc \in {"idle", "returned"}
    /\ turn' = [Reset(IF turn.runner = "acp" /\ turn.agent = id THEN turn
                      ELSE NoTurn)
                   EXCEPT !.runner = "acp", !.pc = "prompt", !.agent = id,
                          !.said = <<>>, !.did = <<>>, !.err = FALSE,
                          !.result = OtherEv]
    /\ UNCHANGED <<Messages, CallStack, passedAgents, ev, out, rules, before,
                   unanswered, panicked, fresh, co, tb, callers, tool,
                   tm, stream, floor, client>>

\* ACPRunner.Run is called for an agent that r.Sessions does not hold: it
\* returns at once.  (Run as a unit; in a coordinator run Start has made the
\* session.)
ACPRunnerRun_NoEventWithoutSession(id) ==
    /\ turn.pc \in {"idle", "returned"}
    /\ turn' = [NoTurn EXCEPT !.runner = "acp", !.pc = "returned",
                              !.agent = id, !.err = TRUE]
    /\ UNCHANGED <<Messages, CallStack, passedAgents, ev, out, rules, before,
                   unanswered, panicked, fresh, co, tb, callers, tool,
                   tm, stream, floor, client>>

ACPRunnerRunNoSession(id) ==
    /\ turn.pc \in {"idle", "returned"}
    /\ turn' = [NoTurn EXCEPT !.runner = "acp", !.pc = "returned",
                              !.agent = id, !.err = TRUE,
                              !.result = AgentErrorEv(id, <<>>)]
    /\ UNCHANGED <<Messages, CallStack, passedAgents, ev, out, rules, before,
                   unanswered, panicked, fresh, co, tb, callers, tool,
                   tm, stream, floor, client>>

\* An id getAgent does not find.
UnknownAgentIDs == {"@ab"}

\* Coordinator.runAgent is called with an id the blueprint does not have: no
\* runner is made.
runAgentUnknown(agentID) ==
    /\ turn.pc \in {"idle", "returned"}
    /\ getAgent(agentID) = 0
    /\ turn' = [NoTurn EXCEPT !.pc = "returned", !.agent = agentID,
                              !.err = TRUE,
                              !.result = AgentErrorEv(agentID, <<>>)]
    /\ UNCHANGED <<Messages, CallStack, passedAgents, ev, out, rules, before,
                   unanswered, panicked, fresh, co, tb, callers, tool,
                   tm, stream, floor, client>>

\* FloorClient.SessionUpdate while the prompt is out.
SessionUpdate(u) ==
    /\ turn.runner = "acp"
    /\ turn.pc = "prompt"
    /\ \/ /\ u.kind = "AgentMessageChunk"
          /\ Len(turn.fullResponse) + Len(u.text) <= MaxTurnChars
          /\ turn' = [turn EXCEPT !.fullResponse = @ \o u.text,
                                  !.said = @ \o u.text]
       \/ /\ u.kind = "ToolCall"
          /\ turn' = [turn EXCEPT !.toolCalls =
                         [x \in DOMAIN @ \cup {u.id} |->
                             IF x = u.id THEN u.title ELSE @[x]]]
       \/ /\ u.kind = "ToolCallUpdate"
          /\ u.completed
          /\ Len(turn.interactions) < MaxTurnTools
          /\ LET title == IF u.id \in DOMAIN turn.toolCalls
                          THEN turn.toolCalls[u.id] ELSE "" IN
             turn' = [turn EXCEPT
                         !.interactions =
                             Append(@, [Command |-> title, Output |-> u.output]),
                         !.did =
                             Append(@, [Command |-> title, Output |-> u.output]),
                         !.toolCalls =
                             [x \in DOMAIN @ \ {u.id} |-> @[x]]]
       \/ /\ u.kind = "ToolCallUpdate"
          /\ ~u.completed
          /\ UNCHANGED turn
       \/ /\ u.kind = "AgentThoughtChunk"
          /\ UNCHANGED turn
    /\ UNCHANGED <<Messages, CallStack, passedAgents, ev, out, rules, before,
                   unanswered, panicked, fresh, co, tb, callers, tool,
                   tm, stream, floor, client>>

\* session.Prompt returns without error.
Prompt ==
    /\ turn.runner = "acp"
    /\ turn.pc = "prompt"
    /\ turn' = [turn EXCEPT !.pc = "check"]
    /\ UNCHANGED <<Messages, CallStack, passedAgents, ev, out, rules, before,
                   unanswered, panicked, fresh, co, tb, callers, tool,
                   tm, stream, floor, client>>

\* session.Prompt returns an error.
PromptError ==
    /\ turn.runner = "acp"
    /\ turn.pc = "prompt"
    /\ turn' = [turn EXCEPT !.pc = "returned", !.err = TRUE,
                            !.result = AgentErrorEv(turn.agent, turn.fullResponse)]
    /\ UNCHANGED <<Messages, CallStack, passedAgents, ev, out, rules, before,
                   unanswered, panicked, fresh, co, tb, callers, tool,
                   tm, stream, floor, client>>

\* After the prompt: the client's interactions converted, the check for
\* [PASS] and the RunnerResult.
ACPRunnerReturn ==
    /\ turn.runner = "acp"
    /\ turn.pc = "check"
    /\ LET interactions ==
               [k \in 1..Len(turn.interactions) |->
                   [Command |-> turn.interactions[k].Command,
                    Output |-> turn.interactions[k].Output]]
           content == turn.fullResponse
       IN
       turn' = [turn EXCEPT
                   !.pc = "returned",
                   !.result = IF StringsContains(ToLower(content), PassToken)
                              THEN AgentPassedEv(turn.agent)
                              ELSE AgentDoneEv(turn.agent, content, interactions)]
    /\ UNCHANGED <<Messages, CallStack, passedAgents, ev, out, rules, before,
                   unanswered, panicked, fresh, co, tb, callers, tool,
                   tm, stream, floor, client>>

NextTurn ==
    \/ \E id \in AgentIDs : LLMRunnerRun(id)
    \/ \E content \in TurnChunks, toolCalls \in LLMToolCalls :
          ChatStream(content, toolCalls)
    \/ \E content \in TurnChunks : ChatStreamError(content)
    \/ LLMRunnerReturn
    \/ \E id \in AgentIDs : ACPRunnerRun(id)
    \/ \E id \in AgentIDs : ACPRunnerRunNoSession(id)
    \/ \E agentID \in UnknownAgentIDs : runAgentUnknown(agentID)
    \/ \E u \in SessionUpdates : SessionUpdate(u)
    \/ Prompt
    \/ PromptError
    \/ ACPRunnerReturn

SpecTurn == Init /\ [][NextTurn]_vars

-----------------------------------------------------------------------------
(* The task board.  Arguments are a map from keys to JSON values; a value   *)
(* is a string, a number (float64 after decoding, kept here in halves so    *)
(* that 1.5 is a value) or something else.                                  *)

\* The tasks the board may hold.
MaxTasks == 2

Str(v) == [t |-> "string", v |-> v]
\* The float64 of value h / 2.
Float(h) == [t |-> "float64", v |-> h]

\* The map with one more key.
WithArg(args, key, value) ==
    [k \in DOMAIN args \cup {key} |-> IF k = key THEN value ELSE args[k]]

NoArgs == [k \in {} |-> [t |-> "bool", v |-> TRUE]]

\* s, ok := args[key].(string)
IsStringArg(args, key) == key \in DOMAIN args /\ args[key].t = "string"
StringArg(args, key) == IF IsStringArg(args, key) THEN args[key].v ELSE ""

\* int(n) for a float64 n: the fraction is dropped.
IntOfFloat(h) == IF h >= 0 THEN h \div 2 ELSE 0 - ((0 - h) \div 2)

\* intArg
intArg(args, key) ==
    IF key \notin DOMAIN args THEN [n |-> 0, err |-> "is required"]
    ELSE IF args[key].t = "float64"
    THEN [n |-> IntOfFloat(args[key].v), err |-> ""]
    ELSE [n |-> 0, err |-> "must be an integer"]

Task(id, title, desc, status, assignee) ==
    [ID |-> id, Title |-> title, Description |-> desc, Status |-> status,
     Assignee |-> assignee]

\* What a call gives back: the board's tasks and nextID after it, its result
\* and its error ("" for nil).
Returned(tasks, nextID, result, err) ==
    [tasks |-> tasks, nextID |-> nextID, result |-> result, err |-> err]

\* The positions of a sequence that satisfy a test, as a sequence in order.
RECURSIVE TasksWithStatus(_, _)
TasksWithStatus(tasks, statusFilter) ==
    IF tasks = <<>> THEN <<>>
    ELSE IF statusFilter = "" \/ Head(tasks).Status = statusFilter
    THEN <<Head(tasks)>> \o TasksWithStatus(Tail(tasks), statusFilter)
    ELSE TasksWithStatus(Tail(tasks), statusFilter)

listTasks(b, args) ==
    LET result == TasksWithStatus(b.tasks, StringArg(args, "status")) IN
    Returned(b.tasks, b.nextID, [tasks |-> result, count |-> Len(result)], "")

\* addTask taking an id for a task it then rejects.
addTask_CountsRejected(b, args) ==
    IF StringArg(args, "title") = ""
    THEN Returned(b.tasks, b.nextID + 1, Nil, "title is required")
    ELSE LET task == Task(b.nextID, StringArg(args, "title"),
                          StringArg(args, "description"), "todo", "") IN
         Returned(Append(b.tasks, task), b.nextID + 1, task, "")

addTask(b, args) ==
    IF StringArg(args, "title") = ""
    THEN Returned(b.tasks, b.nextID, Nil, "title is required")
    ELSE LET task == Task(b.nextID, StringArg(args, "title"),
                          StringArg(args, "description"), "todo", "") IN
         Returned(Append(b.tasks, task), b.nextID + 1, task, "")

\* The first position of the task with this id, 0 when there is none.
IndexOfTask(tasks, id) ==
    IF \E i \in 1..Len(tasks) : tasks[i].ID = id
    THEN CHOOSE i \in 1..Len(tasks) :
            /\ tasks[i].ID = id
            /\ \A j \in 1..(i - 1) : tasks[j].ID # id
    ELSE 0

\* The task after the fields the call supplies as strings are set.
UpdatedTask(task, args) ==
    [task EXCEPT
        !.Status = IF IsStringArg(args, "status") THEN args["status"].v ELSE @,
        !.Assignee = IF IsStringArg(args, "assignee") THEN args["assignee"].v
                     ELSE @,
        !.Title = IF IsStringArg(args, "title") THEN args["title"].v ELSE @,
        !.Description = IF IsStringArg(args, "description")
                        THEN args["description"].v ELSE @]

\* updateTask: the id read, the task looked up under the lock, its fields set.
updateTask(b, args) ==
    LET id == intArg(args, "id")
        i == IndexOfTask(b.tasks, id.n)
    IN  IF id.err # "" THEN Returned(b.tasks, b.nextID, Nil, id.err)
        ELSE IF i # 0
        THEN Returned([b.tasks EXCEPT ![i] = UpdatedTask(@, args)], b.nextID,
                      UpdatedTask(b.tasks[i], args), "")
        ELSE Returned(b.tasks, b.nextID, Nil, "not found")

getTask(b, args) ==
    LET id == intArg(args, "id")
        i == IndexOfTask(b.tasks, id.n)
    IN  IF id.err # "" THEN Returned(b.tasks, b.nextID, Nil, id.err)
        ELSE IF i # 0 THEN Returned(b.tasks, b.nextID, b.tasks[i], "")
        ELSE Returned(b.tasks, b.nextID, Nil, "not found")

\* TaskBoard.Call
Call(b, toolName, args) ==
    CASE toolName = "list_tasks" -> listTasks(b, args)
      [] toolName = "add_task" -> addTask(b, args)
      [] toolName = "update_task" -> updateTask(b, args)
      [] toolName = "get_task" -> getTask(b, args)
      [] OTHER -> Returned(b.tasks, b.nextID, Nil, "unknown tool")

\* The arguments calls come with: ids absent, of the wrong type, 1, 1.5
\* and 2.
BoardCalls ==
    LET IdArgs ==
            {NoArgs, WithArg(NoArgs, "id", Str("1"))}
                \cup {WithArg(NoArgs, "id", Float(h)) : h \in {2, 3, 4}}
        AddArgs ==
            { NoArgs,
              WithArg(NoArgs, "title", Str("")),
              WithArg(WithArg(NoArgs, "title", Str("a")), "description", Str("d")) }
        FieldArgs ==
            { NoArgs,
              WithArg(NoArgs, "status", Str("done")),
              WithArg(NoArgs, "status", Str("blocked")),
              WithArg(WithArg(NoArgs, "status", Float(2)), "assignee", Str("@a")),
              WithArg(WithArg(NoArgs, "title", Str("b")), "description", Str("")) }
        \* The fields of one map beside the id of another.
        WithFields(id, fields) ==
            [k \in DOMAIN id \cup DOMAIN fields |->
                IF k \in DOMAIN id THEN id[k] ELSE fields[k]]
    IN  {[tool |-> "add_task", args |-> a] : a \in AddArgs}
            \cup {[tool |-> "update_task", args |-> WithFields(i, f)]
                      : i \in IdArgs, f \in FieldArgs}
            \cup {[tool |-> "get_task", args |-> i] : i \in IdArgs}
            \cup {[tool |-> "list_tasks", args |-> a]
                      : a \in {NoArgs, WithArg(NoArgs, "status", Str("done"))}}
            \cup {[tool |-> "drop_task", args |-> WithArg(NoArgs, "id", Float(2))]}

\* One caller at a time: a call from its entry to its return.
TaskBoardCall(c) ==
    /\ LET r == Call(tb, c.tool, c.args) IN
       /\ Len(r.tasks) <= MaxTasks
       /\ tb' = [tb EXCEPT !.tasks = r.tasks, !.nextID = r.nextID,
                           !.last = [tool |-> c.tool, args |-> c.args,
                                     result |-> r.result, err |-> r.err]]
    /\ UNCHANGED <<Messages, CallStack, passedAgents, ev, out, rules, before,
                   unanswered, panicked, fresh, co, turn, callers, tool,
                   tm, stream, floor, client>>

NextBoard == \E c \in BoardCalls : TaskBoardCall(c)

SpecBoard == Init /\ [][NextBoard]_vars

-----------------------------------------------------------------------------
(* The task board called by several goroutines at once: every call step by  *)
(* step, with mu taken and released where the code takes and releases it.   *)

\* The calls the goroutines make.
ConcurrentCalls ==
    { [tool |-> "add_task", args |-> NoArgs],
      [tool |-> "add_task",
       args |-> WithArg(WithArg(NoArgs, "title", Str("a")), "description", Str("d"))],
      [tool |-> "update_task",
       args |-> WithArg(WithArg(NoArgs, "id", Float(2)), "status", Str("done"))],
      [tool |-> "get_task", args |-> WithArg(NoArgs, "id", Float(2))],
      [tool |-> "list_tasks", args |-> NoArgs] }

\* A goroutine calls TaskBoard.Call, which dispatches on the tool name; the
\* tool's function reads its arguments before it asks for the lock, and
\* returns from there when they are not right.
Invoke(p, c) ==
    /\ callers[p].pc \in {"idle", "done"}
    /\ LET AddsInFlight ==
               Cardinality({q \in 1..NumCallers :
                               /\ callers[q].tool = "add_task"
                               /\ callers[q].pc \notin {"idle", "done"}})
       IN  c.tool = "add_task" => Len(tb.tasks) + AddsInFlight < MaxTasks
    /\ LET failed ==
               CASE c.tool = "add_task" ->
                        IF StringArg(c.args, "title") = ""
                        THEN "title is required" ELSE ""
                 [] c.tool \in {"update_task", "get_task"} ->
                        intArg(c.args, "id").err
                 [] OTHER -> ""
           inCall == {q \in 1..NumCallers :
                         callers[q].pc \notin {"idle", "done"}}
       IN
       callers' = [q \in 1..NumCallers |->
                      IF q # p
                      THEN IF q \in inCall
                           THEN [callers[q] EXCEPT !.overlap = @ \cup {p}]
                           ELSE callers[q]
                      ELSE
                      [NoCall EXCEPT
                          !.tool = c.tool, !.args = c.args,
                          !.overlap = inCall,
                          !.id = IF c.tool \in {"update_task", "get_task"}
                                 THEN intArg(c.args, "id").n ELSE 0,
                          !.err = failed,
                          !.lin = [result |-> Nil, err |-> failed],
                          !.pc = IF failed # "" THEN "done"
                                 ELSE IF c.tool \in {"add_task", "update_task"}
                                 THEN "Lock" ELSE "RLock"]]
    /\ UNCHANGED tb
    /\ UNCHANGED <<Messages, CallStack, passedAgents, ev, out, rules, before,
                   unanswered, panicked, fresh, co, turn, tool,
                   tm, stream, floor, client>>

\* mu.Lock succeeding whatever the state of the lock.
CanLock_Always(b) == TRUE

\* mu.Lock goes through when no goroutine holds the lock either way.
CanLock(b) == ~b.writer /\ b.readers = 0

\* tb.mu.Lock()
Lock(p) ==
    /\ callers[p].pc = "Lock"
    /\ CanLock(tb)
    /\ LET r == Call(tb.serial, callers[p].tool, callers[p].args) IN
       /\ tb' = [tb EXCEPT !.writer = TRUE,
                           !.serial = [tasks |-> r.tasks, nextID |-> r.nextID]]
       /\ callers' = [callers EXCEPT
                         ![p].lin = [result |-> r.result, err |-> r.err],
                         ![p].pc = IF callers[p].tool = "add_task"
                                   THEN "newTask" ELSE "find"]
    /\ UNCHANGED <<Messages, CallStack, passedAgents, ev, out, rules, before,
                   unanswered, panicked, fresh, co, turn, tool,
                   tm, stream, floor, client>>

\* tb.mu.RLock()
RLock(p) ==
    /\ callers[p].pc = "RLock"
    /\ ~tb.writer
    /\ tb' = [tb EXCEPT !.readers = @ + 1]
    /\ LET r == Call(tb.serial, callers[p].tool, callers[p].args) IN
       callers' = [callers EXCEPT
                      ![p].lin = [result |-> r.result, err |-> r.err],
                      ![p].pc = "read"]
    /\ UNCHANGED <<Messages, CallStack, passedAgents, ev, out, rules, before,
                   unanswered, panicked, fresh, co, turn, tool,
                   tm, stream, floor, client>>

\* addTask: task := Task{ID: tb.nextID, ...}
addTaskNew(p) ==
    /\ callers[p].pc = "newTask"
    /\ callers' = [callers EXCEPT
                      ![p].task = Task(tb.nextID, StringArg(callers[p].args, "title"),
                                       StringArg(callers[p].args, "description"),
                                       "todo", ""),
                      ![p].pc = "incr"]
    /\ UNCHANGED tb
    /\ UNCHANGED <<Messages, CallStack, passedAgents, ev, out, rules, before,
                   unanswered, panicked, fresh, co, turn, tool,
                   tm, stream, floor, client>>

\* addTask: tb.nextID++
addTaskIncr(p) ==
    /\ callers[p].pc = "incr"
    /\ tb' = [tb EXCEPT !.nextID = @ + 1]
    /\ callers' = [callers EXCEPT ![p].pc = "append"]
    /\ UNCHANGED <<Messages, CallStack, passedAgents, ev, out, rules, before,
                   unanswered, panicked, fresh, co, turn, tool,
                   tm, stream, floor, client>>

\* addTask: tb.tasks = append(tb.tasks, task); return task, nil
addTaskAppend(p) ==
    /\ callers[p].pc = "append"
    /\ tb' = [tb EXCEPT !.tasks = Append(@, callers[p].task)]
    /\ callers' = [callers EXCEPT ![p].result = callers[p].task,
                                  ![p].pc = "Unlock"]
    /\ UNCHANGED <<Messages, CallStack, passedAgents, ev, out, rules, before,
                   unanswered, panicked, fresh, co, turn, tool,
                   tm, stream, floor, client>>

\* updateTask: the loop to the task with the id; without one, the error.
updateTaskFind(p) ==
    /\ callers[p].pc = "find"
    /\ LET i == IndexOfTask(tb.tasks, callers[p].id) IN
       callers' = [callers EXCEPT
                      ![p].i = i,
                      ![p].err = IF i = 0 THEN "not found" ELSE "",
                      ![p].pc = IF i = 0 THEN "Unlock" ELSE "write"]
    /\ UNCHANGED tb
    /\ UNCHANGED <<Messages, CallStack, passedAgents, ev, out, rules, before,
                   unanswered, panicked, fresh, co, turn, tool,
                   tm, stream, floor, client>>

\* updateTask: the fields set; return tb.tasks[i], nil
updateTaskWrite(p) ==
    /\ callers[p].pc = "write"
    /\ callers[p].i <= Len(tb.tasks)
    /\ tb' = [tb EXCEPT !.tasks[callers[p].i] = UpdatedTask(@, callers[p].args)]
    /\ callers' = [callers EXCEPT
                      ![p].result = UpdatedTask(tb.tasks[callers[p].i],
                                                callers[p].args),
                      ![p].pc = "Unlock"]
    /\ UNCHANGED <<Messages, CallStack, passedAgents, ev, out, rules, before,
                   unanswered, panicked, fresh, co, turn, tool,
                   tm, stream, floor, client>>

\* listTasks and getTask under the shared lock.
Read(p) ==
    /\ callers[p].pc = "read"
    /\ LET r == Call(tb, callers[p].tool, callers[p].args) IN
       callers' = [callers EXCEPT ![p].result = r.result, ![p].err = r.err,
                                  ![p].pc = "RUnlock"]
    /\ UNCHANGED tb
    /\ UNCHANGED <<Messages, CallStack, passedAgents, ev, out, rules, before,
                   unanswered, panicked, fresh, co, turn, tool,
                   tm, stream, floor, client>>

\* defer tb.mu.Unlock(), and the call has returned.
Unlock(p) ==
    /\ callers[p].pc = "Unlock"
    /\ tb' = [tb EXCEPT !.writer = FALSE]
    /\ callers' = [callers EXCEPT ![p].pc = "done"]
    /\ UNCHANGED <<Messages, CallStack, passedAgents, ev, out, rules, before,
                   unanswered, panicked, fresh, co, turn, tool,
                   tm, stream, floor, client>>

\* defer tb.mu.RUnlock(), and the call has returned.
RUnlock(p) ==
    /\ callers[p].pc = "RUnlock"
    /\ tb' = [tb EXCEPT !.readers = @ - 1]
    /\ callers' = [callers EXCEPT ![p].pc = "done"]
    /\ UNCHANGED <<Messages, CallStack, passedAgents, ev, out, rules, before,
                   unanswered, panicked, fresh, co, turn, tool,
                   tm, stream, floor, client>>

NextShared ==
    \E p \in 1..NumCallers :
        \/ \E c \in ConcurrentCalls : Invoke(p, c)
        \/ Lock(p)
        \/ RLock(p)
        \/ addTaskNew(p)
        \/ addTaskIncr(p)
        \/ addTaskAppend(p)
        \/ updateTaskFind(p)
        \/ updateTaskWrite(p)
        \/ Read(p)
        \/ Unlock(p)
        \/ RUnlock(p)

SpecShared == Init /\ [][NextShared]_vars

-----------------------------------------------------------------------------
(* The tool calls of a native agent in full: what LLMRunner.Run does with a
   chat response that holds tool calls, through expandToolCalls and
   dispatchToolCall, to the tool, the interactions and the history. *)

\* The most tool calls in one chat response.
MaxResponseCalls == 1

\* A string is a sequence of pieces: a piece is the text of one JSON object,
\* or text that is none ("_", ".", a word without "_", a broken-off object).
\* A piece is <<whether it is an object, the object, the text>>.
Obj(o) == <<TRUE, o, "">>
Txt(s) == <<FALSE, NoArgs, s>>
Text(words) == [i \in 1..Len(words) |-> Txt(words[i])]

\* %d
RECURSIVE Itoa(_)
Itoa(i) ==
    LET Digits == <<"0", "1", "2", "3", "4", "5", "6", "7", "8", "9">> IN
    IF i < 10 THEN <<Txt(Digits[i + 1])>>
    ELSE Itoa(i \div 10) \o <<Txt(Digits[(i % 10) + 1])>>

\* parseJSONObjects: objects are decoded while there is more; the first
\* piece that is no object is an error and nothing is returned; no object
\* at all is one empty object.
RECURSIVE Decode(_, _)
Decode(s, results) ==
    IF s = <<>> THEN [objs |-> results, err |-> ""]
    ELSE IF ~Head(s)[1] THEN [objs |-> <<>>, err |-> "invalid character"]
    ELSE Decode(Tail(s), Append(results, Head(s)[2]))

parseJSONObjects(s) ==
    LET d == Decode(s, <<>>) IN
    IF d.err = "" /\ d.objs = <<>> THEN [objs |-> <<NoArgs>>, err |-> ""] ELSE d

\* json.Unmarshal into struct{Cmd string `json:"cmd"`}: one object, whose
\* "cmd", when it has one, is a string; other keys are ignored.
UnmarshalCmd(s) ==
    IF /\ Len(s) = 1
       /\ s[1][1]
       /\ "cmd" \in DOMAIN s[1][2] => s[1][2]["cmd"].t = "string"
    THEN [Cmd |-> IF StringArg(s[1][2], "cmd") = "" THEN <<>>
                  ELSE <<Txt(StringArg(s[1][2], "cmd"))>>,
          err |-> ""]
    ELSE [Cmd |-> <<>>, err |-> "invalid"]

\* strings.SplitN(name, "__", 2): cut at the first "__", if there is one.
SplitN(name) ==
    LET seps == {i \in 1..(Len(name) - 1) :
                    name[i] = Txt("_") /\ name[i + 1] = Txt("_")}
    IN  IF seps = {} THEN <<name>>
        ELSE LET i == CHOOSE i \in seps : \A j \in seps : i <= j
             IN  <<SubSeq(name, 1, i - 1), SubSeq(name, i + 2, Len(name))>>

\* furnitureToolToLLM: tool.Function.Name
furnitureToolToLLM(furnitureName, toolName) ==
    furnitureName \o Text(<<"_", "_">>) \o toolName

\* fmt.Sprintf("[ERROR: %v]", err)
ErrorOutput(err) == Text(<<"[ERROR: ">>) \o err \o Text(<<"]">>)

\* strings.HasPrefix(output, "[ERROR: ")
IsErrorOutput(output) == Len(output) > 0 /\ output[1] = Txt("[ERROR: ")

\* Every split call with the id of the tool call it was split from.
splitID_SameID(id, i) == id

\* call.ID: tc.ID, and for i > 0 fmt.Sprintf("%s_%d", tc.ID, i).
splitID(id, i) == IF i > 0 THEN id \o Text(<<"_">>) \o Itoa(i) ELSE id

\* One expandedCall.
expandedCall(call, title, output) ==
    [Call |-> call, Title |-> title, Output |-> output]

\* One invocation of a tool: of a furniture's tool with its arguments, or of
\* the sandbox (tool empty) with the command; failed: it returned an error.
Invocation(target, toolName, args, failed) ==
    [target |-> target, tool |-> toolName, args |-> args, failed |-> failed]

\* ToolCallStarted{Title}, ToolCallResult{Title, Output}, and the mark of a
\* call ("called").
StreamEvent(type, title, output) ==
    [type |-> type, Title |-> title, Output |-> output]

\* f.Call(toolName, args) and the output made of it: a tool the furniture
\* does not have is an error, and so is a call that fails inside; otherwise
\* the result as JSON (here the arguments given back).
furnitureOutput(r, furnitureName, toolName, args, outcome) ==
    IF toolName \notin r.Furniture[furnitureName]
    THEN ErrorOutput(Text(<<"furniture has no tool ">>) \o toolName)
    ELSE IF outcome = "err" THEN ErrorOutput(Text(<<"internal error">>))
    ELSE <<Obj(args)>>

\* dispatchToolCall, a name with "__": the furniture is looked up, the
\* arguments are split into objects, and the tool is called once per object.
dispatchFurniture(r, tc, parts, outcomes) ==
    LET furnitureName == parts[1]
        toolName == parts[2]
        title == furnitureName \o Text(<<".">>) \o toolName
        parsed == parseJSONObjects(tc.Arguments)
    IN  IF furnitureName \notin DOMAIN r.Furniture
        THEN [expanded |->
                  <<expandedCall(tc, tc.Name,
                        ErrorOutput(Text(<<"unknown furniture ">>)
                                        \o furnitureName))>>,
              invoked |-> <<>>, events |-> <<>>]
        ELSE IF parsed.err # ""
        THEN [expanded |->
                  <<expandedCall(tc, title,
                        ErrorOutput(Text(<<"invalid arguments: ", parsed.err>>)))>>,
              invoked |-> <<>>, events |-> <<>>]
        ELSE [expanded |->
                  [i \in 1..Len(parsed.objs) |->
                      expandedCall([ID |-> splitID(tc.ID, i - 1),
                                    Name |-> tc.Name,
                                    Arguments |-> <<Obj(parsed.objs[i])>>],
                                   title,
                                   furnitureOutput(r, furnitureName, toolName,
                                                   parsed.objs[i], outcomes[i]))],
              invoked |->
                  [i \in 1..Len(parsed.objs) |->
                      Invocation(furnitureName, toolName,
                                 <<Obj(parsed.objs[i])>>,
                                 \/ toolName \notin r.Furniture[furnitureName]
                                 \/ outcomes[i] = "err")],
              events |->
                  [i \in 1..(2 * Len(parsed.objs)) |->
                      StreamEvent(IF i % 2 = 1 THEN "ToolCallStarted"
                                  ELSE "called", title, <<>>)]]

\* dispatchToolCall, the name "bash": without a sandbox an error; the
\* arguments are unmarshalled, and when that fails the whole argument string
\* is the command; the command is executed once, and a timeout is an error.
dispatchBash(r, tc, outcomes) ==
    LET args == UnmarshalCmd(tc.Arguments)
        Cmd == IF args.err # "" THEN tc.Arguments ELSE args.Cmd
    IN  IF ~r.Sandbox
        THEN [expanded |->
                  <<expandedCall(tc, Text(<<"bash">>),
                        ErrorOutput(Text(<<"no sandbox available">>)))>>,
              invoked |-> <<>>, events |-> <<>>]
        ELSE [expanded |->
                  <<expandedCall(tc, Cmd,
                        IF outcomes[1] = "err"
                        THEN ErrorOutput(Text(<<"command timed out">>))
                        ELSE Text(<<"output">>))>>,
              invoked |-> <<Invocation(Text(<<"bash">>), <<>>, Cmd,
                                       outcomes[1] = "err")>>,
              events |-> <<StreamEvent("ToolCallStarted", Cmd, <<>>),
                           StreamEvent("called", Cmd, <<>>)>>]

\* dispatchToolCall with the tools called and what each did: outcomes[i] is
\* "ok" or "err" for the i-th invocation.
dispatch(r, tc, outcomes) ==
    LET parts == SplitN(tc.Name) IN
    IF Len(parts) = 2 THEN dispatchFurniture(r, tc, parts, outcomes)
    ELSE IF tc.Name = Text(<<"bash">>) THEN dispatchBash(r, tc, outcomes)
    ELSE [expanded |->
              <<expandedCall(tc, tc.Name,
                    ErrorOutput(Text(<<"unknown tool ">>) \o tc.Name))>>,
          invoked |-> <<>>, events |-> <<>>]

\* expandToolCalls, with the invocations made on the way.
RECURSIVE expand(_, _, _)
expand(r, toolCalls, outcomes) ==
    IF toolCalls = <<>> THEN <<>>
    ELSE <<dispatch(r, Head(toolCalls), Head(outcomes))>>
             \o expand(r, Tail(toolCalls), Tail(outcomes))

\* All the expanded calls of a response, in order.
RECURSIVE Flatten(_)
Flatten(groups) ==
    IF groups = <<>> THEN <<>> ELSE Head(groups) \o Flatten(Tail(groups))

\* The interaction LLMRunner.Run records for each expanded call.
RECURSIVE InteractionsOf(_)
InteractionsOf(expanded) ==
    IF expanded = <<>> THEN <<>>
    ELSE <<[Command |-> Head(expanded).Title, Output |-> Head(expanded).Output]>>
             \o InteractionsOf(Tail(expanded))

\* The ToolCallResult LLMRunner.Run emits for each expanded call.
RECURSIVE ResultsOf(_)
ResultsOf(expanded) ==
    IF expanded = <<>> THEN <<>>
    ELSE <<StreamEvent("ToolCallResult", Head(expanded).Title,
                       Head(expanded).Output)>>
             \o ResultsOf(Tail(expanded))

\* The messages LLMRunner.Run appends for the expanded calls: for each an
\* assistant message with the call and a tool message with its output.
RECURSIVE MessagesOf(_)
MessagesOf(expanded) ==
    IF expanded = <<>> THEN <<>>
    ELSE << [Role |-> "assistant", Content |-> <<>>,
             ToolCalls |-> <<Head(expanded).Call>>, ToolCallID |-> <<>>],
            [Role |-> "tool", Content |-> Head(expanded).Output,
             ToolCalls |-> <<>>, ToolCallID |-> Head(expanded).Call.ID] >>
             \o MessagesOf(Tail(expanded))

\* Furniture registries of a runner: the tools of each furniture by name.
OneDesk == [f \in {Text(<<"desk">>)} |-> {Text(<<"add", "_", "task">>), Text(<<"list">>)}]
TwoShelves ==
    [f \in {Text(<<"a">>), Text(<<"a", "_", "_", "b">>)} |->
        IF f = Text(<<"a">>) THEN {Text(<<"b", "_", "_", "c">>)}
        ELSE {Text(<<"c">>)}]

\* The runners: r.Furniture and whether r.Sandbox is there.
LLMRunners ==
    { [Furniture |-> OneDesk, Sandbox |-> TRUE],
      [Furniture |-> OneDesk, Sandbox |-> FALSE],
      [Furniture |-> TwoShelves, Sandbox |-> TRUE] }

\* The names a provider's tool call can bear.
ToolCallNames ==
    { Text(<<"bash">>), Text(<<"rm">>),
      furnitureToolToLLM(Text(<<"desk">>), Text(<<"add", "_", "task">>)),
      furnitureToolToLLM(Text(<<"desk">>), Text(<<"drop">>)),
      furnitureToolToLLM(Text(<<"shelf">>), Text(<<"list">>)),
      furnitureToolToLLM(Text(<<"a", "_", "_", "b">>), Text(<<"c">>)) }

\* The argument strings: none, one object, two and three objects one after
\* the other, an object broken off, and an object followed by one broken off.
ArgumentStrings ==
    { <<>>,
      <<Obj(WithArg(NoArgs, "cmd", Str("ls")))>>,
      <<Obj(WithArg(NoArgs, "cmd", Str("ls"))),
        Obj(WithArg(NoArgs, "cmd", Str("pwd")))>>,
      <<Obj(WithArg(NoArgs, "title", Str("a"))),
        Obj(WithArg(NoArgs, "title", Str("b"))),
        Obj(WithArg(NoArgs, "title", Str("a")))>>,
      <<Txt("{\"cmd\": \"ls\"")>>,
      <<Obj(WithArg(NoArgs, "title", Str("a"))), Txt("{\"title\"")>> }

\* The k-th tool call of a response.
ToolCall(k, name, arguments) ==
    [ID |-> Text(<<"call">>) \o Itoa(k), Name |-> name, Arguments |-> arguments]

\* The chat responses with tool calls: for each tool call its name, its
\* arguments, and what its invocations do, one outcome per object.
ToolCallResponses ==
    LET OutcomesOf(arguments) ==
            LET n == Len(parseJSONObjects(arguments).objs) IN
            [1..(IF n = 0 THEN 1 ELSE n) -> {"ok", "err"}]
        ToolCallChoices ==
            UNION { {<<name, arguments, outcomes>> :
                        name \in ToolCallNames,
                        outcomes \in OutcomesOf(arguments)} :
                    arguments \in ArgumentStrings }
    IN  UNION { [1..n -> ToolCallChoices] : n \in 1..MaxResponseCalls }

\* LLMRunner.Run begins a turn with runner r.
NewTurn(r) ==
    /\ tool.pc \in {"idle", "returned"}
    /\ tool' = [NoToolCalls EXCEPT !.pc = "chat", !.r = r]
    /\ UNCHANGED <<Messages, CallStack, passedAgents, ev, out, rules, before,
                   unanswered, panicked, fresh, co, turn, tb, callers,
                   tm, stream, floor, client>>

\* A chat response with tool calls: they are expanded, and then every
\* expanded call is streamed as a ToolCallResult, recorded as an interaction
\* and appended to the history as an assistant message and a tool message;
\* then the loop goes on.
ToolCallsResponse ==
    /\ tool.pc = "chat"
    /\ \E resp \in ToolCallResponses :
              LET toolCalls == [k \in 1..Len(resp) |->
                                   ToolCall(k, resp[k][1], resp[k][2])]
                  outcomes == [k \in 1..Len(resp) |-> resp[k][3]]
                  ds == expand(tool.r, toolCalls, outcomes)
                  expanded == Flatten([k \in 1..Len(ds) |-> ds[k].expanded])
              IN  tool' = [tool EXCEPT
                              !.pc = "loop",
                              !.calls = toolCalls,
                              !.expanded = [k \in 1..Len(ds) |-> ds[k].expanded],
                              !.invoked = [k \in 1..Len(ds) |-> ds[k].invoked],
                              !.interactions = InteractionsOf(expanded),
                              !.messages = MessagesOf(expanded),
                              !.events =
                                  Flatten([k \in 1..Len(ds) |-> ds[k].events])
                                      \o ResultsOf(expanded)]
    /\ UNCHANGED <<Messages, CallStack, passedAgents, ev, out, rules, before,
                   unanswered, panicked, fresh, co, turn, tb, callers,
                   tm, stream, floor, client>>

\* The loop goes round to the next chat request; what the last response
\* brought is behind.
NextRequest ==
    /\ tool.pc = "loop"
    /\ tool' = [NoToolCalls EXCEPT !.pc = "chat", !.r = tool.r]
    /\ UNCHANGED <<Messages, CallStack, passedAgents, ev, out, rules, before,
                   unanswered, panicked, fresh, co, turn, tb, callers,
                   tm, stream, floor, client>>

\* A chat response without tool calls: the loop is left and Run returns.
NoToolCallsResponse ==
    /\ tool.pc = "chat"
    /\ tool' = [tool EXCEPT !.pc = "returned"]
    /\ UNCHANGED <<Messages, CallStack, passedAgents, ev, out, rules, before,
                   unanswered, panicked, fresh, co, turn, tb, callers,
                   tm, stream, floor, client>>

NextTools ==
    \/ \E r \in LLMRunners : NewTurn(r)
    \/ ToolCallsResponse
    \/ NextRequest
    \/ NoToolCallsResponse

SpecTools == Init /\ [][NextTools]_vars

-----------------------------------------------------------------------------
(* llm.Client.ChatStream on the tool calls of one streamed response: each   *)
(* chunk's fragments go into a map by index, and the map is turned into a   *)
(* slice when the stream ends.  Argument strings are sequences of pieces.   *)

\* The fragments one response may carry.
MaxFragments == 3

\* delta.ToolCalls[k]: a field the chunk leaves out decodes to "".
Fragments ==
    [Index : 0..MaxIndex, ID : {"", "c"}, Type : {"", "function"},
     Name : {"", "f"}, Arguments : {<<"a">>, <<"b">>}]

\* "Handle tool calls": the body of the loop over delta.ToolCalls for tc.
HandleToolCalls(toolCalls, tc) ==
    LET call == IF toolCalls[tc.Index].exists THEN toolCalls[tc.Index]
                ELSE [exists |-> TRUE, ID |-> tc.ID, Type |-> tc.Type,
                      Name |-> "", Arguments |-> <<>>]
    IN  [toolCalls EXCEPT ![tc.Index] =
            [exists |-> TRUE,
             ID |-> IF tc.ID # "" THEN tc.ID ELSE call.ID,
             Type |-> IF tc.Type # "" THEN tc.Type ELSE call.Type,
             Name |-> IF tc.Name # "" THEN tc.Name ELSE call.Name,
             Arguments |-> call.Arguments \o tc.Arguments]]

\* "Convert tool calls map to slice": for i := 0; i < len(toolCalls); i++,
\* from i on.
RECURSIVE resultToolCalls(_, _)
resultToolCalls(toolCalls, i) ==
    IF i >= Cardinality({j \in DOMAIN toolCalls : toolCalls[j].exists})
    THEN <<>>
    ELSE (IF i \in DOMAIN toolCalls /\ toolCalls[i].exists
          THEN <<[ID |-> toolCalls[i].ID, Type |-> toolCalls[i].Type,
                  Name |-> toolCalls[i].Name,
                  Arguments |-> toolCalls[i].Arguments]>>
          ELSE <<>>) \o resultToolCalls(toolCalls, i + 1)

\* The stream delivers a chunk with one tool-call fragment.
ReadToolCallChunk ==
    /\ stream.pc = "reading"
    /\ Len(stream.received) < MaxFragments
    /\ \E tc \in Fragments :
          stream' = [stream EXCEPT
                        !.received = Append(@, tc),
                        !.toolCalls = HandleToolCalls(@, tc)]
    /\ UNCHANGED <<Messages, CallStack, passedAgents, ev, out, rules, before,
                   unanswered, panicked, fresh, co, turn, tb, callers, tool,
                   tm, floor, client>>

\* The stream ends (io.EOF): ChatStream returns the calls.
ReadEOF ==
    /\ stream.pc = "reading"
    /\ stream' = [stream EXCEPT
                     !.pc = "returned",
                     !.result = resultToolCalls(stream.toolCalls, 0)]
    /\ UNCHANGED <<Messages, CallStack, passedAgents, ev, out, rules, before,
                   unanswered, panicked, fresh, co, turn, tb, callers, tool,
                   tm, floor, client>>

\* The next call of ChatStream: an empty map again.
ChatStreamCall ==
    /\ stream.pc = "returned"
    /\ stream' = NoStream
    /\ UNCHANGED <<Messages, CallStack, passedAgents, ev, out, rules, before,
                   unanswered, panicked, fresh, co, turn, tb, callers, tool,
                   tm, floor, client>>

NextStream == ReadToolCallChunk \/ ReadEOF \/ ChatStreamCall

SpecStream == Init /\ [][NextStream]_vars

-----------------------------------------------------------------------------
(* The TerminalManager of a FloorClient.  Create starts a goroutine that    *)
(* runs the command, on the host or through Sandbox.Execute, and closes the *)
(* terminal's Done channel; the other methods look the id up in the map.    *)

\* The terminals one manager may create.
MaxTerminals == 2

\* Commands and working directories given to Create.
TerminalCommands == {"true", "exit 3", "sleep 60"}
WorkingDirs == {"", "/missing"}

\* The status bash -c ends with when it is left to run.
ExitStatus(cmd) == IF cmd = "exit 3" THEN 3 ELSE 0

\* fmt.Sprintf("cd %s && %s", *cwd, fullCmd)
SandboxCmd(cwd, cmd) == IF cwd # "" THEN <<"cd", cwd, "&&", cmd>> ELSE <<cmd>>

\* Sandbox.Execute on a started sandbox: docker exec ... bash -c command,
\* with the timeout (30 s by default).  status is what the command ended
\* with (1 when cd fails), -1 when it was killed.  err is set on the timeout
\* only ("Return output even on error"), by fmt.Errorf: it is no
\* *exec.ExitError.
Execute(command) ==
    IF command = <<"sleep 60">>
    THEN [output |-> "", err |-> "command timed out", status |-> -1,
          exitErr |-> FALSE]
    ELSE [output |-> "out", err |-> "",
          status |-> IF Len(command) > 1 THEN 1 ELSE ExitStatus(command[1]),
          exitErr |-> FALSE]

\* exec.Command("bash", "-c", fullCmd) with cmd.Dir, and cmd.Run: a
\* directory that does not exist keeps the process from starting (an error
\* that is no *exec.ExitError), a status other than 0 is an *exec.ExitError.
HostRun(cwd, cmd) ==
    IF cwd = "/missing"
    THEN [output |-> "", err |-> "chdir", status |-> -1, exitErr |-> FALSE]
    ELSE [output |-> "out", err |-> IF ExitStatus(cmd) # 0 THEN "exit status" ELSE "",
          status |-> ExitStatus(cmd), exitErr |-> ExitStatus(cmd) # 0]

\* NewFloorClient makes the manager of a session, with or without a sandbox.
NewFloorClientTerminals ==
    /\ \E s \in BOOLEAN : tm' = NewTerminalManager(s)
    /\ UNCHANGED <<Messages, CallStack, passedAgents, ev, out, rules, before,
                   unanswered, panicked, fresh, co, turn, tb, callers, tool,
                   stream, floor, client>>

\* Create: the Terminal goes into the map and its goroutine is started.
Create ==
    /\ tm.call.pc = "returned"
    /\ tm.nextID < MaxTerminals
    /\ \E cmd \in TerminalCommands, cwd \in WorkingDirs :
          tm' = [tm EXCEPT
                    !.nextID = @ + 1,
                    !.terms = Append(@, [Cmd |-> cmd, Dir |-> cwd,
                                         Output |-> "", Done |-> FALSE,
                                         Exit |-> 0, code |-> -1]),
                    !.terminals = @ \cup {tm.nextID + 1},
                    !.call = [op |-> "Create", id |-> tm.nextID + 1,
                              pc |-> "returned", found |-> TRUE, exit |-> 0]]
    /\ UNCHANGED <<Messages, CallStack, passedAgents, ev, out, rules, before,
                   unanswered, panicked, fresh, co, turn, tb, callers, tool,
                   stream, floor, client>>

\* The goroutine of a terminal from the return of its command to
\* close(term.Done).
CommandReturns ==
    /\ \E k \in 1..Len(tm.terms) :
          /\ ~tm.terms[k].Done
          /\ LET t == tm.terms[k]
                 r == IF tm.sandbox THEN Execute(SandboxCmd(t.Dir, t.Cmd))
                      ELSE HostRun(t.Dir, t.Cmd)
             IN  tm' = [tm EXCEPT !.terms[k] =
                           [t EXCEPT !.Output = r.output,
                                     !.Exit = IF r.err = "" THEN 0
                                              ELSE IF r.exitErr THEN r.status
                                              ELSE 1,
                                     !.code = r.status,
                                     !.Done = TRUE]]
    /\ UNCHANGED <<Messages, CallStack, passedAgents, ev, out, rules, before,
                   unanswered, panicked, fresh, co, turn, tb, callers, tool,
                   stream, floor, client>>

\* GetOutput(id)
GetOutput(id) ==
    /\ tm.call.pc = "returned"
    /\ tm' = [tm EXCEPT !.call = [op |-> "GetOutput", id |-> id,
                                  pc |-> "returned",
                                  found |-> id \in tm.terminals, exit |-> 0]]
    /\ UNCHANGED <<Messages, CallStack, passedAgents, ev, out, rules, before,
                   unanswered, panicked, fresh, co, turn, tb, callers, tool,
                   stream, floor, client>>

\* WaitForExit(id) up to <-term.Done: not found and -1, or the wait.
WaitForExit(id) ==
    /\ tm.call.pc = "returned"
    /\ tm' = [tm EXCEPT !.call =
                 IF id \in tm.terminals
                 THEN [op |-> "WaitForExit", id |-> id, pc |-> "Done",
                       found |-> TRUE, exit |-> 0]
                 ELSE [op |-> "WaitForExit", id |-> id, pc |-> "returned",
                       found |-> FALSE, exit |-> -1]]
    /\ UNCHANGED <<Messages, CallStack, passedAgents, ev, out, rules, before,
                   unanswered, panicked, fresh, co, turn, tb, callers, tool,
                   stream, floor, client>>

\* <-term.Done has a value: WaitForExit returns term.Exit.
WaitForExitReturn ==
    /\ tm.call.pc = "Done"
    /\ tm.terms[tm.call.id].Done
    /\ tm' = [tm EXCEPT !.call.pc = "returned",
                        !.call.exit = tm.terms[tm.call.id].Exit]
    /\ UNCHANGED <<Messages, CallStack, passedAgents, ev, out, rules, before,
                   unanswered, panicked, fresh, co, turn, tb, callers, tool,
                   stream, floor, client>>

\* Kill(id): the lookup, and nothing else.
Kill(id) ==
    /\ tm.call.pc = "returned"
    /\ tm' = [tm EXCEPT !.call = [op |-> "Kill", id |-> id, pc |-> "returned",
                                  found |-> id \in tm.terminals, exit |-> 0]]
    /\ UNCHANGED <<Messages, CallStack, passedAgents, ev, out, rules, before,
                   unanswered, panicked, fresh, co, turn, tb, callers, tool,
                   stream, floor, client>>

\* Release(id): delete(tm.terminals, id)
Release(id) ==
    /\ tm.call.pc = "returned"
    /\ tm' = [tm EXCEPT !.terminals = @ \ {id},
                        !.call = [op |-> "Release", id |-> id,
                                  pc |-> "returned",
                                  found |-> id \in tm.terminals, exit |-> 0]]
    /\ UNCHANGED <<Messages, CallStack, passedAgents, ev, out, rules, before,
                   unanswered, panicked, fresh, co, turn, tb, callers, tool,
                   stream, floor, client>>

NextTerminals ==
    \/ NewFloorClientTerminals
    \/ Create
    \/ CommandReturns
    \/ \E id \in 1..MaxTerminals : GetOutput(id)
    \/ \E id \in 1..MaxTerminals : WaitForExit(id)
    \/ WaitForExitReturn
    \/ \E id \in 1..MaxTerminals : Kill(id)
    \/ \E id \in 1..MaxTerminals : Release(id)

SpecTerminals == Init /\ [][NextTerminals]_vars

-----------------------------------------------------------------------------
(* Coordinator.Run around its loop: Start with the sandbox and the sessions *)
(* of the external agents, and Stop.                                        *)

\* The agents of a blueprint here.
MaxFloorAgents == 2

\* An agent of the blueprint: native, external, or external without command.
AgentKinds ==
    { [Type |-> "llm", Command |-> ""], [Type |-> "acp", Command |-> "agent"],
      [Type |-> "acp", Command |-> ""] }

\* Run is called on the coordinator of a blueprint: Start begins.
CoordinatorRun ==
    /\ floor.pc \in {"new", "returned"}
    /\ \E s \in BOOLEAN, agents \in [1..MaxFloorAgents -> AgentKinds] :
          floor' = [NoFloor EXCEPT
                       !.pc = "sandbox",
                       !.bp = [sandbox |-> s, agents |-> agents],
                       !.child = [k \in 1..MaxFloorAgents |-> "none"]]
    /\ UNCHANGED <<Messages, CallStack, passedAgents, ev, out, rules, before,
                   unanswered, panicked, fresh, co, turn, tb, callers, tool,
                   tm, stream, client>>

\* Start up to its loop: a blueprint with a sandbox workstation has the
\* sandbox started, or Start returns the error and Run returns it.
StartSandbox ==
    /\ floor.pc = "sandbox"
    /\ \E ok \in BOOLEAN :
          floor' =
             IF ~floor.bp.sandbox THEN [floor EXCEPT !.pc = "agents", !.k = 1]
             ELSE IF ok
             THEN [floor EXCEPT !.pc = "agents", !.k = 1,
                                !.sandbox = "started"]
             ELSE [floor EXCEPT !.pc = "returned", !.err = TRUE]
    /\ UNCHANGED <<Messages, CallStack, passedAgents, ev, out, rules, before,
                   unanswered, panicked, fresh, co, turn, tb, callers, tool,
                   tm, stream, client>>

\* One round of Start's loop over the agents.  step is how far the agent
\* gets: "spawn" (NewAgentSession fails, no process), "initialize" or
\* "session" (the process runs, the call fails, session.Close kills it),
\* "ready" (the session goes into co.sessions).
StartAgent ==
    /\ floor.pc = "agents"
    /\ floor.k <= Len(floor.bp.agents)
    /\ \E step \in {"spawn", "initialize", "session", "ready"} :
          LET agent == floor.bp.agents[floor.k] IN
          floor' =
             IF agent.Type # "acp" THEN [floor EXCEPT !.k = @ + 1]
             ELSE IF agent.Command = "" \/ step = "spawn"
             THEN [floor EXCEPT !.pc = "returned", !.err = TRUE]
             ELSE IF step \in {"initialize", "session"}
             THEN [floor EXCEPT !.pc = "returned", !.err = TRUE,
                                !.child[floor.k] = "killed"]
             ELSE [floor EXCEPT !.k = @ + 1,
                                !.child[floor.k] = "running",
                                !.sessions = @ \cup {floor.k}]
    /\ UNCHANGED <<Messages, CallStack, passedAgents, ev, out, rules, before,
                   unanswered, panicked, fresh, co, turn, tb, callers, tool,
                   tm, stream, client>>

\* Start returns nil: Run defers Stop and goes into its loop.
StartReturns ==
    /\ floor.pc = "agents"
    /\ floor.k > Len(floor.bp.agents)
    /\ floor' = [floor EXCEPT !.pc = "running"]
    /\ UNCHANGED <<Messages, CallStack, passedAgents, ev, out, rules, before,
                   unanswered, panicked, fresh, co, turn, tb, callers, tool,
                   tm, stream, client>>

\* Run's loop ends and the deferred Stop runs: every session of
\* co.sessions is closed, the sandbox is stopped, Run returns nil.
Stop ==
    /\ floor.pc = "running"
    /\ floor' = [floor EXCEPT
                    !.pc = "returned",
                    !.child = [k \in DOMAIN @ |->
                                 IF k \in floor.sessions THEN "killed" ELSE @[k]],
                    !.sandbox = IF @ = "none" THEN @ ELSE "stopped"]
    /\ UNCHANGED <<Messages, CallStack, passedAgents, ev, out, rules, before,
                   unanswered, panicked, fresh, co, turn, tb, callers, tool,
                   tm, stream, client>>

NextFloor ==
    CoordinatorRun \/ StartSandbox \/ StartAgent \/ StartReturns \/ Stop

SpecFloor == Init /\ [][NextFloor]_vars

-----------------------------------------------------------------------------
(* The FloorClient of an ACP session between the two threads that use it.  *)
(* ACPRunner.Run resets it, sends the prompt and reads what was gathered    *)
(* when Prompt returns; SessionUpdate is called for each notification of    *)
(* the agent, on a thread of its own.  Nothing but c.mu orders the two.     *)

\* The prompts an external agent is sent, and the updates it sends in one.
MaxPrompts == 2
MaxUpdates == 2

\* The session updates: a message chunk, the start of tool call "t1", its
\* completion, and a thought chunk.
ClientUpdates ==
    {"AgentMessageChunk", "ToolCall", "ToolCallUpdate", "AgentThoughtChunk"}

\* One access of thread to an accumulator, with the holder of c.mu.
Access(thread, op, field) ==
    [thread |-> thread, op |-> op, field |-> field, mu |-> client.mu]

\* ACPRunner.Run is called and calls client.Reset(), which takes c.mu.  No
\* handler of an earlier prompt is still at work when the next Run begins.
ResetLock ==
    /\ client.runner = "idle"
    /\ client.notify = "idle"
    /\ client.mu = ""
    /\ client.prompts < MaxPrompts
    /\ client' = [client EXCEPT !.runner = "Reset", !.mu = "runner"]
    /\ UNCHANGED <<Messages, CallStack, passedAgents, ev, out, rules, before,
                   unanswered, panicked, fresh, co, turn, tb, callers, tool,
                   tm, stream, floor>>

\* Reset clears the three accumulators and releases c.mu; Run sets the
\* callbacks and sends the prompt.
ResetAndPrompt ==
    /\ client.runner = "Reset"
    /\ client' = [client EXCEPT
                     !.ResponseText = <<>>, !.Interactions = <<>>,
                     !.toolCalls = {},
                     !.accesses = @ \cup
                         {Access("runner", "write", f) :
                             f \in {"ResponseText", "Interactions",
                                    "toolCalls"}},
                     !.mu = "",
                     !.runner = "Prompt",
                     !.prompts = @ + 1,
                     !.updates = 0]
    /\ UNCHANGED <<Messages, CallStack, passedAgents, ev, out, rules, before,
                   unanswered, panicked, fresh, co, turn, tb, callers, tool,
                   tm, stream, floor>>

\* The agent sends a session/update while the prompt is out: SessionUpdate
\* is called.
NotificationArrives ==
    /\ client.runner = "Prompt"
    /\ client.notify = "idle"
    /\ client.updates < MaxUpdates
    /\ \E u \in ClientUpdates :
          client' = [client EXCEPT !.notify = "SessionUpdate", !.u = u,
                                   !.updates = @ + 1]
    /\ UNCHANGED <<Messages, CallStack, passedAgents, ev, out, rules, before,
                   unanswered, panicked, fresh, co, turn, tb, callers, tool,
                   tm, stream, floor>>

\* SessionUpdate up to c.mu.Lock(); a thought chunk is consumed without it.
SessionUpdateLock ==
    /\ client.notify = "SessionUpdate"
    /\ client' =
          IF client.u = "AgentThoughtChunk"
          THEN [client EXCEPT !.notify = "idle", !.u = ""]
          ELSE [client EXCEPT !.notify = "locked", !.mu = "notify"]
    /\ client.u # "AgentThoughtChunk" => client.mu = ""
    /\ UNCHANGED <<Messages, CallStack, passedAgents, ev, out, rules, before,
                   unanswered, panicked, fresh, co, turn, tb, callers, tool,
                   tm, stream, floor>>

\* SessionUpdate from its write to c.mu.Unlock().
SessionUpdateUnlock ==
    /\ client.notify = "locked"
    /\ client' =
          [(CASE client.u = "AgentMessageChunk" ->
                   [client EXCEPT
                       !.ResponseText = Append(@, "a"),
                       !.accesses = @ \cup
                           {Access("notify", "write", "ResponseText")}]
              [] client.u = "ToolCall" ->
                   [client EXCEPT
                       !.toolCalls = @ \cup {"t1"},
                       !.accesses = @ \cup
                           {Access("notify", "write", "toolCalls")}]
              [] OTHER ->
                   [client EXCEPT
                       !.Interactions =
                           Append(@, IF "t1" \in client.toolCalls THEN "ls"
                                     ELSE ""),
                       !.toolCalls = @ \ {"t1"},
                       !.accesses = @ \cup
                           {Access("notify", "read", "toolCalls"),
                            Access("notify", "write", "toolCalls"),
                            Access("notify", "write", "Interactions")}])
           EXCEPT !.mu = "", !.notify = "idle", !.u = ""]
    /\ UNCHANGED <<Messages, CallStack, passedAgents, ev, out, rules, before,
                   unanswered, panicked, fresh, co, turn, tb, callers, tool,
                   tm, stream, floor>>

\* session.Prompt returns, with the stop reason or with an error.
PromptReturns ==
    /\ client.runner = "Prompt"
    /\ \E err \in BOOLEAN :
          client' = [client EXCEPT !.runner = IF err THEN "failed" ELSE "read"]
    /\ UNCHANGED <<Messages, CallStack, passedAgents, ev, out, rules, before,
                   unanswered, panicked, fresh, co, turn, tb, callers, tool,
                   tm, stream, floor>>

\* Run after Prompt: client.ResponseText.String(), and when Prompt did not
\* fail the loop over client.Interactions before it, without c.mu.  A read
\* of ResponseText that meets a handler inside its write of it is a data
\* race: Run sees the text with or without the chunk.
ReadAccumulators ==
    /\ client.runner \in {"read", "failed"}
    /\ \E chunk \in {<<>>, <<"a">>} :
          /\ chunk # <<>> =>
                client.notify = "locked" /\ client.u = "AgentMessageChunk"
          /\ client' =
                [client EXCEPT
                    !.runner = "idle",
                    !.read = [ResponseText |-> client.ResponseText \o chunk,
                              Interactions |->
                                  IF client.runner = "read"
                                  THEN client.Interactions ELSE <<>>],
                    !.accesses = @ \cup
                        {Access("runner", "read", f) :
                            f \in IF client.runner = "read"
                                  THEN {"ResponseText", "Interactions"}
                                  ELSE {"ResponseText"}}]
    /\ UNCHANGED <<Messages, CallStack, passedAgents, ev, out, rules, before,
                   unanswered, panicked, fresh, co, turn, tb, callers, tool,
                   tm, stream, floor>>

NextClient ==
    \/ ResetLock
    \/ ResetAndPrompt
    \/ NotificationArrives
    \/ SessionUpdateLock
    \/ SessionUpdateUnlock
    \/ PromptReturns
    \/ ReadAccumulators

SpecClient == Init /\ [][NextClient]_vars

-----------------------------------------------------------------------------
(* The vocabulary of the resolution rules, stated on the transcript itself. *)

\* The content holds the mention token of this id: "@", the id's word, "?".
Mentioned(id, content) ==
    \E i \in 1..(Len(content) - 2) :
        /\ content[i] = "@"
        /\ "@" \o content[i + 1] = id
        /\ content[i + 2] = "?"

\* The events whose handler ends in next-speaker resolution.
Resolves(e) == e.type \in {"UserMessage", "AgentDone", "AgentPassed"}

\* The call stack resolution starts from: emptied by UserMessage, without its
\* top frame when the top callee passes, as it was otherwise.
StackAtResolution(e, stack) ==
    IF e.type = "UserMessage" THEN <<>>
    ELSE IF /\ e.type = "AgentPassed"
            /\ stack # <<>>
            /\ stack[Len(stack)].Callee = e.AgentID
         THEN SubSeq(stack, 1, Len(stack) - 1)
         ELSE stack

\* The @user rule catches message M.
UserRuleFires(M) == M.FromID # User /\ Mentioned(User, M.Content)

\* The blueprint agents a mention in M can route to, X being excluded.
Eligible(M, X) ==
    {a \in AgentIDs : a # M.FromID /\ a \notin X /\ Mentioned(a, M.Content)}

\* The always-activation agents M can wake, X being excluded.
Wakeable(M, X) ==
    {Agents[i].ID : i \in {j \in 1..Len(Agents) :
        /\ Agents[j].Activation = "always"
        /\ Agents[j].ID # M.FromID
        /\ Agents[j].ID \notin X}}

\* The member of the non-empty set E of agent ids that comes first in the blueprint.
FirstInBlueprint(E) ==
    Agents[CHOOSE i \in 1..Len(Agents) :
              /\ Agents[i].ID \in E
              /\ \A j \in 1..(i - 1) : Agents[j].ID \notin E].ID

ActivationOf(id) == Agents[CHOOSE i \in 1..Len(Agents) : Agents[i].ID = id].Activation

Top(stack) == stack[Len(stack)]

PromptTargets(events) ==
    {events[k].arg : k \in {j \in 1..Len(events) : events[j].type = "PromptAgent"}}

-----------------------------------------------------------------------------
\* C1 (as stated): over every sequence of inbound events, no second
\* PromptAgent is emitted unless an AgentDone, AgentPassed or AgentError came
\* in since the previous one: the count of PromptAgent events since the
\* latest such event never exceeds one.
C1_AtMostOnePromptUnanswered == unanswered <= 1

\* C1 (amended): every HandleEvent call emits at most one PromptAgent, and a
\* PromptAgent is added to an unanswered one only by a UserMessage.
C1_SecondPromptOnlyByUserMessage ==
    [][ /\ NumPrompts(out') <= 1
        /\ (unanswered >= 1 /\ HasPrompt(out') /\ ev'.type \notin TerminalTypes)
              => ev'.type = "UserMessage" ]_vars

\* A UserMessage has added a PromptAgent to an unanswered one.
C1_Witness ==
    /\ ev.type = "UserMessage"
    /\ HasPrompt(out)
    /\ unanswered = 2

\* C2: rule 2.  When the last message M is not caught by the @user rule and
\* mentions blueprint agents other than its sender and outside the pass set,
\* resolution pushes exactly Frame{M.from, a} on the stack and emits exactly
\* PromptAgent{a}, a being the first such agent in blueprint order.
C2_MentionRoutesFirstInBlueprint ==
    [][ (Resolves(ev') /\ Messages' # <<>>) =>
          LET M == Messages'[Len(Messages')]
              E == Eligible(M, passedAgents')
              B == StackAtResolution(ev', CallStack)
          IN  (~UserRuleFires(M) /\ E # {}) =>
                 /\ CallStack' = Append(B, Frame(M.FromID, FirstInBlueprint(E)))
                 /\ out' = <<PromptAgent(FirstInBlueprint(E))>> ]_vars

\* @b has said "@c?@a? @c?": @a is prompted, one frame {@b, @a} is on top.
C2_Witness ==
    /\ ev.type = "AgentDone"
    /\ ev.AgentID = "@b"
    /\ Mentioned("@c", ev.Content) /\ Mentioned("@a", ev.Content)
    /\ out = <<PromptAgent("@a")>>
    /\ Len(CallStack) = before.stack + 1
    /\ Top(CallStack) = Frame("@b", "@a")

\* C3: rule 3.  When neither the @user rule nor a routing mention fires and
\* the stack is not empty, resolution pops exactly the top frame; it emits
\* WaitingForUser alone when the frame's caller is @user, and
\* PromptAgent{caller} when the caller is a blueprint agent outside the pass set.
C3_PopReturnsToCaller ==
    [][ (Resolves(ev') /\ Messages' # <<>>) =>
          LET M == Messages'[Len(Messages')]
              X == passedAgents'
              B == StackAtResolution(ev', CallStack)
          IN  (~UserRuleFires(M) /\ Eligible(M, X) = {} /\ B # <<>>) =>
                 /\ CallStack' = SubSeq(B, 1, Len(B) - 1)
                 /\ Top(B).Caller = User => out' = <<WaitingForUser>>
                 /\ Top(B).Caller \in AgentIDs \ X =>
                       out' = <<PromptAgent(Top(B).Caller)>> ]_vars

\* A reply without routing mention has popped a frame whose caller is @user:
\* the user is awaited although an always-activation agent could be woken.
C3_Witness ==
    /\ ev.type = "AgentDone"
    /\ rules = <<"popStack">>
    /\ out = <<WaitingForUser>>
    /\ Len(CallStack) = before.stack - 1
    /\ Wakeable(Messages[Len(Messages)], passedAgents) # {}

\* C4: rule 1.  When the last message is from an agent and mentions @user?,
\* resolution emits WaitingForUser, whatever agents the message mentions,
\* and leaves the call stack as it found it.
C4_UserMentionPauses ==
    [][ (Resolves(ev') /\ Messages' # <<>>) =>
          LET M == Messages'[Len(Messages')]
              B == StackAtResolution(ev', CallStack)
          IN  (M.FromID # User /\ Mentioned(User, M.Content)) =>
                 /\ out' = <<WaitingForUser>>
                 /\ CallStack' = B ]_vars

\* An agent's reply mentions both @b? and @user? over a non-empty stack.
C4_Witness ==
    /\ ev.type = "AgentDone"
    /\ ev.AgentID # "@b"
    /\ Mentioned("@b", ev.Content) /\ Mentioned(User, ev.Content)
    /\ out = <<WaitingForUser>>
    /\ CallStack # <<>>
    /\ Len(CallStack) = before.stack

\* C5: rules 4 and 5.  When no mention routes and the stack is empty,
\* resolution prompts the first always-activation agent in blueprint order
\* that is neither the sender of the last message nor in the pass set, and
\* emits WaitingForUser when there is none or the transcript is empty.
C5_WakeFirstAlwaysAgent ==
    [][ Resolves(ev') =>
          IF Messages' = <<>>
          THEN out' = <<WaitingForUser>>
          ELSE LET M == Messages'[Len(Messages')]
                   X == passedAgents'
                   B == StackAtResolution(ev', CallStack)
               IN  (~UserRuleFires(M) /\ Eligible(M, X) = {} /\ B = <<>>) =>
                      /\ CallStack' = <<>>
                      /\ out' = IF Wakeable(M, X) = {}
                                THEN <<WaitingForUser>>
                                ELSE <<PromptAgent(FirstInBlueprint(Wakeable(M, X)))>>
      ]_vars

\* @c, the second always-activation agent, is woken: @a sent the last
\* message or has passed.
C5_Witness ==
    /\ rules = <<"shouldWake">>
    /\ out = <<PromptAgent("@c")>>
    /\ CallStack = <<>>
    /\ before.stack = 0

\* C6: the target of an emitted PromptAgent is never in the pass-exclusion
\* set, and an agent leaves that set only when an AgentDone, a UserMessage
\* or /clear empties it.
C6_PassedAgentsNotPrompted ==
    [][ /\ PromptTargets(out') \cap passedAgents' = {}
        /\ (~(passedAgents \subseteq passedAgents')) =>
              /\ passedAgents' = {}
              /\ \/ ev'.type \in {"AgentDone", "UserMessage"}
                 \/ ev'.type = "UserCommand" /\ ev'.Command = "/clear" ]_vars

\* An agent is prompted while the last message mentions an agent that passed.
C6_Witness ==
    /\ HasPrompt(out)
    /\ Messages # <<>>
    /\ \E a \in passedAgents :
          /\ Mentioned(a, Messages[Len(Messages)].Content)
          /\ a # Messages[Len(Messages)].FromID

\* C7: the pass-exclusion set is empty right after an AgentDone or a
\* UserMessage has been processed.
C7_PassSetEmptyAfterMessage ==
    ev.type \in {"AgentDone", "UserMessage"} => passedAgents = {}

\* An AgentDone has been processed starting from a non-empty pass set.
C7_Witness ==
    /\ ev.type = "AgentDone"
    /\ before.passed > 0
    /\ passedAgents = {}

\* How resolution may change the stack B it starts from: not at all, by rule
\* 2 pushing the frame of an eligible mention, or by rule 3 popping the top.
ResolutionExplains(B, after, msgs, X) ==
    \/ after = B
    \/ /\ msgs # <<>>
       /\ LET M == msgs[Len(msgs)] IN
          /\ ~UserRuleFires(M)
          /\ \/ \E a \in Eligible(M, X) : after = Append(B, Frame(M.FromID, a))
             \/ /\ Eligible(M, X) = {}
                /\ B # <<>>
                /\ after = SubSeq(B, 1, Len(B) - 1)

\* C8 (as stated): a frame is pushed only by rule 2, and the stack shrinks
\* only by rule 3 or by the AgentPassed handler removing the top frame; no
\* other event processing changes the stack.
C8_OnlyRulesChangeStack ==
    [][ IF Resolves(ev')
        THEN ResolutionExplains(
                 IF ev'.type = "UserMessage" THEN CallStack
                 ELSE StackAtResolution(ev', CallStack),
                 CallStack', Messages', passedAgents')
        ELSE CallStack' = CallStack ]_vars

\* C8 (amended): besides rule 2, rule 3 and the AgentPassed handler, the
\* UserMessage handler and /clear change the stack: both empty it.  AgentError,
\* the other commands and unknown events leave it alone, and no pop is
\* performed on an empty stack.
C8_StackChangesExplained ==
    [][ /\ ~panicked'
        /\ IF Resolves(ev')
           THEN ResolutionExplains(StackAtResolution(ev', CallStack),
                                   CallStack', Messages', passedAgents')
           ELSE IF ev'.type = "UserCommand" /\ ev'.Command = "/clear"
                THEN CallStack' = <<>>
                ELSE CallStack' = CallStack ]_vars

\* A UserMessage found frames on the stack and left only the frame of its
\* own mention.
C8_Witness ==
    /\ ev.type = "UserMessage"
    /\ before.stack >= 1
    /\ Len(CallStack) = 1
    /\ CallStack[1].Caller = User

\* The number of bottom frames two stacks share.
CommonPrefixLen(old, new) ==
    CHOOSE n \in 0..Len(old) :
        /\ n <= Len(new)
        /\ \A i \in 1..n : old[i] = new[i]
        /\ \A m \in (n + 1)..Len(old) :
              m > Len(new) \/ \E i \in 1..m : old[i] # new[i]

\* The positions of the frames of old that new no longer holds.
RemovedFrames(old, new) == (CommonPrefixLen(old, new) + 1)..Len(old)

\* Processing event e, the callee of frame f lets go of it: the callee is the
\* agent that passes, or the last message is the callee's reply and holds no
\* mention that routes (to @user, or to an agent outside X).
CalleeReleases(f, e, msgs, X) ==
    \/ e.type = "AgentPassed" /\ e.AgentID = f.Callee
    \/ /\ e.type \in {"AgentDone", "AgentPassed"}
       /\ msgs # <<>>
       /\ msgs[Len(msgs)].FromID = f.Callee
       /\ ~UserRuleFires(msgs[Len(msgs)])
       /\ Eligible(msgs[Len(msgs)], X) = {}

C10_MentionAgentsNeedMention ==
    \A k \in 1..Len(out) :
        (/\ out[k].type = "PromptAgent"
         /\ ActivationOf(out[k].arg) = "mention"
         /\ rules # <<>>
         /\ rules[Len(rules)] \in {"mention", "shouldWake"})
        => /\ rules[Len(rules)] = "mention"
           /\ Mentioned(out[k].arg, Messages[Len(Messages)].Content)

\* Rule 4 has passed over @b, never mentioned in the transcript, neither the
\* sender nor excluded, and woken @c after it.
C10_Witness ==
    /\ rules = <<"shouldWake">>
    /\ out = <<PromptAgent("@c")>>
    /\ Messages[Len(Messages)].FromID = "@a"
    /\ "@b" \notin passedAgents
    /\ \A k \in 1..Len(Messages) : ~Mentioned("@b", Messages[k].Content)

-----------------------------------------------------------------------------
\* The transcript with the content of its last message replaced by content.
WithLastContent(msgs, content) ==
    [msgs EXCEPT ![Len(msgs)].Content = content]

\* C11: rule 2 never selects the sender of the last message nor an id that
\* is no blueprint agent; when the last message mentions no blueprint agent
\* but its sender (and not @user from an agent), no frame is pushed and
\* resolution ends as it does for the same message without any mention.
C11_SelfAndUnknownMentionsIgnored ==
    [][ (Resolves(ev') /\ Messages' # <<>>) =>
          LET M == Messages'[Len(Messages')]
              X == passedAgents'
              B == StackAtResolution(ev', CallStack)
              r == nextRecipient(WithLastContent(Messages', Plain), B, X)
          IN  /\ rules' = <<"mention">> =>
                    /\ Len(CallStack') = Len(B) + 1
                    /\ Top(CallStack').Callee \in AgentIDs \ {M.FromID}
                    /\ out' = <<PromptAgent(Top(CallStack').Callee)>>
              /\ (~UserRuleFires(M) /\ Eligible(M, {}) = {}) =>
                    /\ Len(CallStack') <= Len(B)
                    /\ CallStack' = r.stack
                    /\ out' = advanceTurnEvents(r.next) ]_vars

\* @a has replied with its own mention "@a?" over a frame that @c called:
\* the frame is popped and @c is prompted, @a is not.
C11_Witness ==
    /\ ev.type = "AgentDone"
    /\ ev.AgentID = "@a"
    /\ ev.Content = <<"@", "a", "?">>
    /\ rules = <<"popStack">>
    /\ out = <<PromptAgent("@c")>>
    /\ Len(CallStack) = before.stack - 1

\* C12: the transcript is append-only.  UserMessage and AgentDone append
\* exactly one message at its end, AgentDone's with its tool interactions;
\* /clear empties the transcript; every other event leaves it unchanged.
C12_TranscriptAppendOnly ==
    [][ IF ev'.type = "UserMessage"
        THEN Messages' = Append(Messages,
                 [FromID |-> User, Content |-> ev'.Content,
                  ToolInteractions |-> <<>>])
        ELSE IF ev'.type = "AgentDone"
        THEN Messages' = Append(Messages,
                 [FromID |-> ev'.AgentID, Content |-> ev'.Content,
                  ToolInteractions |-> ev'.ToolInteractions])
        ELSE IF ev'.type = "UserCommand" /\ ev'.Command = "/clear"
        THEN Messages' = <<>>
        ELSE Messages' = Messages ]_vars

\* A reply with a tool interaction has been appended after another message.
C12_Witness ==
    /\ ev.type = "AgentDone"
    /\ Len(Messages) >= 2
    /\ Messages[Len(Messages)].FromID = ev.AgentID
    /\ Messages[Len(Messages)].ToolInteractions # <<>>
    /\ Messages[Len(Messages)].ToolInteractions = ev.ToolInteractions

\* C13: after /clear and any sequence of events, the transcript is the one
\* a freshly created controller has after the same sequence.
C13_ClearThenSameAsFresh ==
    fresh.on => Messages = fresh.Messages

\* A UserMessage has been processed after /clear, by a controller that had
\* left a prompt unanswered before, and by the fresh one.
C13_Witness ==
    /\ fresh.on
    /\ ev.type = "UserMessage"
    /\ unanswered = 2
    /\ Len(Messages) = 1
    /\ Len(fresh.Messages) = 1

\* C14: an AgentError, in any state, emits exactly SystemInfo followed by
\* WaitingForUser, no PromptAgent, and leaves the transcript unchanged: the
\* partial output is not appended.
C14_AgentErrorReturnsToUser ==
    [][ ev'.type = "AgentError" =>
          /\ Len(out') = 2
          /\ out'[1].type = "SystemInfo"
          /\ out'[2] = WaitingForUser
          /\ ~HasPrompt(out')
          /\ Messages' = Messages ]_vars

\* An error with partial output came in while a prompt was unanswered, over
\* a transcript and a stack that are not empty.
C14_Witness ==
    /\ ev.type = "AgentError"
    /\ ev.Content # <<>>
    /\ Messages # <<>>
    /\ CallStack # <<>>
    /\ out = <<SystemInfo(<<"ERROR from", ev.AgentID>>), WaitingForUser>>
    /\ \A k \in 1..Len(Messages) : Messages[k].Content # ev.Content

\* C15: a UserCommand prompts no agent and is not added to the transcript.
\* /quit emits only FloorStopped; /clear empties transcript, stack and pass
\* set and emits only ConversationCleared; any other command emits only
\* SystemInfo; /quit and the other commands leave transcript, stack and pass
\* set unchanged.
C15_UserCommandConsumed ==
    [][ ev'.type = "UserCommand" =>
          /\ ~HasPrompt(out')
          /\ Len(Messages') <= Len(Messages)
          /\ IF ev'.Command = "/quit"
             THEN /\ out' = <<FloorStopped>>
                  /\ UNCHANGED <<Messages, CallStack, passedAgents>>
             ELSE IF ev'.Command = "/clear"
                  THEN /\ out' = <<ConversationCleared>>
                       /\ Messages' = <<>>
                       /\ CallStack' = <<>>
                       /\ passedAgents' = {}
                  ELSE /\ Len(out') = 1
                       /\ out'[1].type = "SystemInfo"
                       /\ UNCHANGED <<Messages, CallStack, passedAgents>> ]_vars

\* /clear has emptied a stack and a pass set that were not empty.
C15_Witness ==
    /\ ev.type = "UserCommand"
    /\ ev.Command = "/clear"
    /\ before.stack > 0
    /\ before.passed > 0
    /\ Messages = <<>> /\ CallStack = <<>> /\ passedAgents = {}

\* In this state rule 2 has just bound agent first by the last message,
\* which mentions the agents E, first among them, and first answers by e.
BoundFirstOf(E, first, e) ==
    /\ Messages # <<>>
    /\ rules = <<"mention">>
    /\ E = Eligible(Messages[Len(Messages)], passedAgents)
    /\ Cardinality(E) >= 2
    /\ first = FirstInBlueprint(E)
    /\ e.type \in TerminalTypes
    /\ e.AgentID = first

\* Agent c is prompted, or a frame is pushed for it, by the step.
BoundByStep(c) ==
    \/ c \in PromptTargets(out')
    \/ /\ CallStack' # <<>>
       /\ Top(CallStack').Callee = c
       /\ Len(CallStack') >= Len(CallStack)

\* C16 (as stated): when one message mentions two eligible agents, only the
\* first in blueprint order is bound by it: whatever terminal event the
\* first produces, another agent the message mentions is prompted, or gets
\* a frame, only if the first agent's own reply mentions it.
C16_SecondMentionNeverBound ==
    [][ \A E \in SUBSET AgentIDs : \A first \in E :
          BoundFirstOf(E, first, ev') =>
             \A c \in E \ {first} :
                BoundByStep(c) =>
                   ev'.type = "AgentDone" /\ Mentioned(c, ev'.Content) ]_vars

\* C16 (amended): that holds when the first agent replies or fails.  When the
\* first agent passes, its frame is popped and resolution runs again on the
\* same message without it: the next mentioned agent in blueprint order is
\* prompted and a frame from the message's sender to it is pushed.
C16_SecondMentionBoundOnlyByPass ==
    [][ \A E \in SUBSET AgentIDs : \A first \in E :
          BoundFirstOf(E, first, ev') =>
             IF ev'.type = "AgentPassed"
             THEN LET second == FirstInBlueprint(E \ {first}) IN
                  /\ out' = <<PromptAgent(second)>>
                  /\ CallStack' = Append(
                         SubSeq(CallStack, 1, Len(CallStack) - 1),
                         Frame(Messages[Len(Messages)].FromID, second))
             ELSE \A c \in E \ {first} :
                     BoundByStep(c) =>
                        ev'.type = "AgentDone" /\ Mentioned(c, ev'.Content)
      ]_vars

\* The first agent bound by the last message has passed: the other agent
\* that message mentions is prompted, on a frame from the message's sender.
C16_Witness ==
    /\ ev.type = "AgentPassed"
    /\ rules = <<"mention">>
    /\ Messages # <<>>
    /\ Mentioned(ev.AgentID, Messages[Len(Messages)].Content)
    /\ CallStack # <<>>
    /\ Len(CallStack) = before.stack
    /\ Top(CallStack).Caller = Messages[Len(Messages)].FromID
    /\ Top(CallStack).Callee # ev.AgentID
    /\ Mentioned(Top(CallStack).Callee, Messages[Len(Messages)].Content)
    /\ out = <<PromptAgent(Top(CallStack).Callee)>>

\* Rule 2 has just pushed a frame whose caller is c.
PushedBy(c) ==
    /\ rules = <<"mention">>
    /\ CallStack # <<>>
    /\ Top(CallStack).Caller = c

\* The user is awaited.
HandsToUser == \E k \in 1..Len(out) : out[k] = WaitingForUser

\* Control is back at c.
ReturnedTo(c) == IF c = User THEN HandsToUser ELSE out = <<PromptAgent(c)>>

PassByNonCallee(e, stack) ==
    /\ e.type = "AgentPassed"
    /\ stack # <<>>
    /\ Top(stack).Callee # e.AgentID

\* C17 (as stated): when an agent passes that is not the callee of the top
\* frame, the only state change is its entry into the pass set: the stack
\* after the event is the stack before it.
C17_PassByNonCalleeKeepsStack ==
    [][ PassByNonCallee(ev', CallStack) =>
          /\ passedAgents' = passedAgents \cup {ev'.AgentID}
          /\ Messages' = Messages
          /\ CallStack' = CallStack ]_vars

\* C17 (amended): when an agent passes that is not the callee of the top
\* frame, the handler adds it to the pass set and removes no frame: the
\* resolution that follows starts from the stack as it was, and may still
\* push a frame by rule 2 or pop the top frame by rule 3.
C17_PassByNonCalleeHandlerKeepsStack ==
    [][ PassByNonCallee(ev', CallStack) =>
          /\ passedAgents' = passedAgents \cup {ev'.AgentID}
          /\ Messages' = Messages
          /\ ResolutionExplains(CallStack, CallStack', Messages',
                                passedAgents') ]_vars

\* An agent that is not the top callee has passed: the handler popped
\* nothing and resolution has pushed a frame by rule 2 on the stack as it was.
C17_Witness ==
    /\ ev.type = "AgentPassed"
    /\ before.stack >= 1
    /\ Len(CallStack) = before.stack + 1
    /\ CallStack[before.stack].Callee # ev.AgentID
    /\ ev.AgentID \in passedAgents

-----------------------------------------------------------------------------
\* HandleEvent returns in this step: the call has taken place.
Delivered == co.pc = "inHandleEvent" /\ co'.pc # "inHandleEvent"

\* C19: in a coordinator run, CLI or TUI, no two calls of HandleEvent are in
\* progress at once and no two runners run at once; and the call of
\* HandleEvent that follows one which returned a PromptAgent is given the
\* terminal event of that agent, after exactly one runner was started, for
\* that agent, and has returned, and without any ReadInput in between.
C19_RunSerializesController ==
    [][/\ co'.handling <= 1
       /\ co'.runners <= 1
       /\ (Delivered /\ HasPrompt(out)) =>
              /\ ev'.type \in TerminalTypes
              /\ ev'.AgentID = Prompted
              /\ co.agent = Prompted
              /\ co.dispatched = 1
              /\ co.runners = 0
              /\ ~co.read]_vars

\* In the TUI an input was entered while the agent's runner was at work: it
\* is still in the channel when the runner's event has been handled.
C19_Witness ==
    /\ co.tui
    /\ co.pc = "processEvents"
    /\ ev.type \in TerminalTypes
    /\ co.inputCh # <<>>
    /\ co.dispatched = 0

-----------------------------------------------------------------------------
\* Six characters in a row, from position k + 1 on, that spell [pass] in
\* upper or lower case.
SpellsPassAt(content, k) ==
    /\ content[k + 1] = "["
    /\ content[k + 2] \in {"p", "P"}
    /\ content[k + 3] \in {"a", "A"}
    /\ content[k + 4] \in {"s", "S"}
    /\ content[k + 5] \in {"s", "S"}
    /\ content[k + 6] = "]"

SaysPass(content) ==
    \E k \in 0..(Len(content) - 6) : SpellsPassAt(content, k)

\* C20: when a turn of either runner has ended without a transport error,
\* the runner returned AgentPassed for its agent if what the agent said in
\* the turn contains [pass] in any mix of cases, and otherwise an AgentDone
\* of its agent with exactly what the agent said and the tool interactions
\* of the turn, in order.
C20_PassIffContentSaysPass ==
    (turn.pc = "returned" /\ ~turn.err) =>
        IF SaysPass(turn.said)
        THEN turn.result = AgentPassedEv(turn.agent)
        ELSE turn.result = AgentDoneEv(turn.agent, turn.said, turn.did)

\* Both cases in mixed company: a pass whose token came in two pieces and in
\* mixed case, from a turn that had tool interactions.
C20_Witness ==
    /\ turn.pc = "returned"
    /\ ~turn.err
    /\ turn.result.type = "AgentPassed"
    /\ turn.said = <<"[", "P", "a", "S", "s", "]">>
    /\ turn.did # <<>>

-----------------------------------------------------------------------------
\* C21: whatever way a runner's Run, or runAgent without a runner, has
\* returned (reply, pass, failed request or prompt, no session, unknown agent,
\* failed tool calls on the way), its result is one AgentDone, AgentPassed
\* or AgentError, and that event carries the id Run was called for.
C21_RunReturnsTerminalEventOfAgent ==
    turn.pc = "returned" =>
        /\ turn.result.type \in TerminalTypes
        /\ turn.result.AgentID = turn.agent

\* An ACP turn that found no session, after which the agent's id is on the
\* AgentError.
C21_Witness ==
    /\ turn.pc = "returned"
    /\ turn.runner = "acp"
    /\ turn.err
    /\ turn.said = <<>>
    /\ turn.result = AgentErrorEv(turn.agent, <<>>)
    /\ turn.agent \in AgentIDs

-----------------------------------------------------------------------------
\* C22: a turn of the native runner never makes more than 10 chat requests;
\* once it has made 10 it makes no further one, and when it has returned
\* after 10 requests that all came with tool calls, it returned a terminal
\* event.
C22_AtMostTenRequests ==
    /\ turn.requests <= 10
    /\ (turn.runner = "llm" /\ turn.requests = 10) =>
           turn.pc \in {"check", "returned"}
    /\ (turn.runner = "llm" /\ turn.pc = "returned" /\ turn.i = 10) =>
           turn.result.type \in TerminalTypes

\* Ten requests, every one answered with tool calls, and the turn over.
C22_Witness ==
    /\ turn.runner = "llm"
    /\ turn.pc = "returned"
    /\ turn.requests = 10
    /\ turn.i = 10
    /\ Len(turn.did) >= 10
    /\ ~turn.err

-----------------------------------------------------------------------------
\* The successful add_task calls so far: each has put one task on the board,
\* and no call takes one off.
AddsSoFar == Len(tb.tasks)

\* C26: the k-th successful add_task returns the task with id k and status
\* todo, so ids start at 1 and go up by one in the order of creation; an
\* add_task that is rejected takes no id; and no two tasks on the board
\* have the same id.
C26_TaskIdsCountSuccessfulAdds ==
    [][/\ (tb'.last.tool = "add_task" /\ tb'.last.err = "" /\ tb' # tb) =>
              /\ tb'.last.result.ID = AddsSoFar + 1
              /\ tb'.last.result.Status = "todo"
              /\ tb'.nextID = tb.nextID + 1
              /\ tb'.tasks = Append(tb.tasks, tb'.last.result)
       /\ (tb'.last.tool = "add_task" /\ tb'.last.err # "") =>
              tb'.nextID = tb.nextID
       /\ \A i, j \in 1..Len(tb'.tasks) :
              i < j => tb'.tasks[i].ID < tb'.tasks[j].ID
       /\ Len(tb'.tasks) = tb'.nextID - 1]_vars

\* A second task was added after an add_task was rejected in between.
C26_Witness ==
    /\ Len(tb.tasks) = 2
    /\ tb.last.tool = "add_task"
    /\ tb.last.err = ""
    /\ tb.last.result.ID = 2
    /\ tb.tasks[1].Status # "todo"

-----------------------------------------------------------------------------
\* The call gives an id, a number, and a task on the board has that number
\* for its id.
IdOnBoard(c, tasks) ==
    /\ "id" \in DOMAIN c.args
    /\ c.args["id"].t = "float64"
    /\ \E i \in 1..Len(tasks) : 2 * tasks[i].ID = c.args["id"].v

\* The fields in which two tasks differ, by the argument that names them.
ChangedFields(old, new) ==
    {k \in {"status", "assignee", "title", "description"} :
        \/ k = "status" /\ old.Status # new.Status
        \/ k = "assignee" /\ old.Assignee # new.Assignee
        \/ k = "title" /\ old.Title # new.Title
        \/ k = "description" /\ old.Description # new.Description}

BoardTools == {"list_tasks", "add_task", "update_task", "get_task"}

\* C27: an update_task or get_task whose id is not the id of a task on the
\* board, or that gives no id, and a call of a tool the board does not have,
\* return an error and leave tasks and nextID as they were; an update_task
\* that succeeds leaves nextID, the number of tasks and every other task as
\* they were, and changes in its task only fields the call supplies.
C27_FailedCallsChangeNothing ==
    [][LET c == tb'.last IN
       tb' # tb =>
          /\ (c.tool \in {"update_task", "get_task"} /\ ~IdOnBoard(c, tb.tasks)) =>
                 /\ c.err # ""
                 /\ tb'.tasks = tb.tasks
                 /\ tb'.nextID = tb.nextID
          /\ c.tool \notin BoardTools =>
                 /\ c.err # ""
                 /\ tb'.tasks = tb.tasks
                 /\ tb'.nextID = tb.nextID
          /\ (c.tool = "update_task" /\ c.err = "") =>
                 /\ tb'.nextID = tb.nextID
                 /\ Len(tb'.tasks) = Len(tb.tasks)
                 /\ \A i \in 1..Len(tb.tasks) :
                        /\ tb'.tasks[i].ID = tb.tasks[i].ID
                        /\ tb'.tasks[i] # tb.tasks[i] =>
                               /\ 2 * tb.tasks[i].ID = c.args["id"].v
                               /\ ChangedFields(tb.tasks[i], tb'.tasks[i])
                                      \subseteq DOMAIN c.args]_vars

-----------------------------------------------------------------------------
\* C28: whatever calls the board has had, the status of each of its tasks is
\* todo, in_progress or done.
C28_StatusAlwaysValid ==
    \A i \in 1..Len(tb.tasks) :
        tb.tasks[i].Status \in {"todo", "in_progress", "done"}

-----------------------------------------------------------------------------
\* The goroutines whose latest call has returned.
Done == {p \in 1..NumCallers : callers[p].pc = "done"}

\* The goroutines whose latest call was an add_task that succeeded.
Added == {p \in Done : callers[p].tool = "add_task" /\ callers[p].err = ""}

\* C29: with several goroutines calling the board at once, every call
\* returns what it returns when the calls are made one after the other in
\* the order in which they got the lock (the same error, and without an
\* error the same result): add_task calls that succeed return
\* different ids, the ids on the board are 1 to the number of tasks without
\* gap or repeat, and whenever no writer is inside, the board is the board
\* the writes give one after the other, none lost.
C29_CallsLinearizable ==
    /\ \A p \in Done :
           /\ callers[p].err = callers[p].lin.err
           /\ callers[p].err = "" =>
                  callers[p].result = callers[p].lin.result
    /\ \A p, q \in Added : p # q => callers[p].result.ID # callers[q].result.ID
    /\ ~tb.writer =>
           /\ tb.tasks = tb.serial.tasks
           /\ tb.nextID = tb.serial.nextID
           /\ \A i \in 1..Len(tb.tasks) : tb.tasks[i].ID = i

\* Two add_task calls were in progress together and both have returned,
\* the first goroutine with the later id.
C29_Witness ==
    /\ Added = {1, 2}
    /\ callers[1].overlap = {2}
    /\ callers[2].overlap = {1}
    /\ callers[1].result.ID = 2
    /\ callers[2].result.ID = 1
    /\ tb.tasks = <<callers[2].result, callers[1].result>>

-----------------------------------------------------------------------------
\* The objects of an argument string that is nothing but objects, one at
\* least; the empty sequence for any other argument string.
ObjectsOf(arguments) ==
    IF arguments # <<>> /\ \A i \in 1..Len(arguments) : arguments[i][1]
    THEN [i \in 1..Len(arguments) |-> arguments[i][2]]
    ELSE <<>>

\* The tool call is for a furniture the runner has.
TargetsFurniture(r, tc) ==
    /\ Len(SplitN(tc.Name)) = 2
    /\ SplitN(tc.Name)[1] \in DOMAIN r.Furniture

\* The tool call is for the built-in bash tool of a runner with a sandbox.
TargetsBash(r, tc) == tc.Name = Text(<<"bash">>) /\ r.Sandbox

\* C23: when the arguments of a tool call are one or more JSON objects one
\* after the other, the calls it is expanded to have ids that differ from
\* each other; and for every expanded call the history gets an assistant
\* message with that call and a tool message with that call's id and output.
C23_ExpandedCallsHaveDistinctIds ==
    /\ \A k \in 1..Len(tool.calls) :
           ObjectsOf(tool.calls[k].Arguments) # <<>> =>
               \A i, j \in 1..Len(tool.expanded[k]) :
                   i # j => tool.expanded[k][i].Call.ID # tool.expanded[k][j].Call.ID
    /\ LET expanded == Flatten(tool.expanded) IN
       /\ Len(tool.messages) = 2 * Len(expanded)
       /\ \A j \in 1..Len(expanded) :
              /\ tool.messages[2 * j - 1].Role = "assistant"
              /\ tool.messages[2 * j - 1].ToolCalls = <<expanded[j].Call>>
              /\ tool.messages[2 * j].Role = "tool"
              /\ tool.messages[2 * j].ToolCallID = expanded[j].Call.ID
              /\ tool.messages[2 * j].Content = expanded[j].Output

\* A tool call with three objects was expanded to three calls of a
\* furniture's tool, and the history has their six messages.
C23_Witness ==
    /\ Len(tool.calls) >= 1
    /\ Len(ObjectsOf(tool.calls[1].Arguments)) = 3
    /\ Len(tool.expanded[1]) = 3
    /\ Len(tool.invoked[1]) = 3
    /\ tool.expanded[1][3].Call.ID = tool.calls[1].ID \o Text(<<"_", "2">>)
    /\ tool.messages[6].ToolCallID = tool.expanded[1][3].Call.ID

\* C24: a tool call for a furniture or for bash whose arguments are N JSON
\* objects one after the other has the tool invoked N times, once for each
\* object and in their order, and N interactions recorded.
C24_OneInvocationPerObject ==
    /\ Len(tool.interactions) = Len(Flatten(tool.expanded))
    /\ \A k \in 1..Len(tool.calls) :
           LET tc == tool.calls[k]
               objs == ObjectsOf(tc.Arguments)
           IN  /\ objs # <<>>
               /\ TargetsFurniture(tool.r, tc) \/ TargetsBash(tool.r, tc)
               => /\ Len(tool.invoked[k]) = Len(objs)
                  /\ Len(tool.expanded[k]) = Len(objs)
                  /\ \A i \in 1..Len(tool.invoked[k]) :
                         tool.invoked[k][i].args =
                             IF TargetsBash(tool.r, tc)
                             THEN UnmarshalCmd(<<Obj(objs[i])>>).Cmd
                             ELSE <<Obj(objs[i])>>

\* The tool call has a name that is no tool: not bash and without "__", or
\* with a furniture the runner does not have.
UnknownToolName(r, tc) ==
    LET parts == SplitN(tc.Name) IN
    IF Len(parts) = 2 THEN parts[1] \notin DOMAIN r.Furniture
    ELSE tc.Name # Text(<<"bash">>)

\* The arguments of the tool call cannot be decoded.
InvalidArguments(tc) ==
    \E i \in 1..Len(tc.Arguments) : ~tc.Arguments[i][1]

\* C25: a tool call with an unknown tool name or with arguments that cannot
\* be decoded is recorded as one interaction whose output begins with
\* "[ERROR: "; so is an invocation that failed (the sandbox timed out, the
\* furniture returned an error); the output is the content of the tool
\* message; and the loop goes on.
C25_ToolErrorsAreReported ==
    /\ tool.calls # <<>> => tool.pc = "loop"
    /\ \A k \in 1..Len(tool.calls) :
           LET tc == tool.calls[k] IN
           /\ UnknownToolName(tool.r, tc) \/ InvalidArguments(tc) =>
                  /\ Len(tool.expanded[k]) = 1
                  /\ IsErrorOutput(tool.expanded[k][1].Output)
           /\ \A i \in 1..Len(tool.invoked[k]) :
                  tool.invoked[k][i].failed =>
                      IsErrorOutput(tool.expanded[k][i].Output)
    /\ LET expanded == Flatten(tool.expanded) IN
       /\ Len(tool.interactions) = Len(expanded)
       /\ \A j \in 1..Len(expanded) :
              /\ tool.interactions[j].Output = expanded[j].Output
              /\ tool.messages[2 * j].Content = expanded[j].Output

\* The furniture and tool pairs of a runner.
FurnitureTools(r) ==
    UNION { {<<f, t>> : t \in r.Furniture[f]} : f \in DOMAIN r.Furniture }

\* C30: two different pairs of furniture and tool of a runner have different
\* API names, and a tool call with the API name of a pair has the tool of
\* that pair, of that furniture, invoked.
C30_APINamesUniqueAndRoundTrip ==
    /\ \A p, q \in FurnitureTools(tool.r) :
           p # q => furnitureToolToLLM(p[1], p[2]) # furnitureToolToLLM(q[1], q[2])
    /\ \A k \in 1..Len(tool.calls) :
           \A p \in FurnitureTools(tool.r) :
               /\ tool.calls[k].Name = furnitureToolToLLM(p[1], p[2])
               /\ ~InvalidArguments(tool.calls[k])
               => /\ tool.invoked[k] # <<>>
                  /\ \A i \in 1..Len(tool.invoked[k]) :
                         /\ tool.invoked[k][i].target = p[1]
                         /\ tool.invoked[k][i].tool = p[2]


-----------------------------------------------------------------------------
\* C38: under the coordinator's discipline every AgentPassed adds to the
\* pass-exclusion set an agent that was not in it, the set holds blueprint
\* agents only and no member of it is prompted next; so a run of AgentPassed
\* events without an AgentDone between them is at most as long as the
\* blueprint, and the pass that fills the set is answered by WaitingForUser.
C38_EachPassEnlargesExclusion ==
    ev.type = "AgentPassed" =>
        /\ ev.AgentID \in passedAgents
        /\ Cardinality(passedAgents) = before.passed + 1
        /\ passedAgents \subseteq AgentIDs
        /\ PromptTargets(out) \cap passedAgents = {}
        /\ (passedAgents = AgentIDs => out = <<WaitingForUser>>)

\* The third pass in a row: every agent of the blueprint has passed on the
\* same message and the floor is back with the user.
C38_Witness ==
    /\ ev.type = "AgentPassed"
    /\ before.passed = Len(Agents) - 1
    /\ passedAgents = AgentIDs
    /\ out = <<WaitingForUser>>


-----------------------------------------------------------------------------
\* C39: under the coordinator's discipline an agent with activation
\* "mention" is the target of a PromptAgent, whatever rule selected it (the
\* return to a caller on the stack included), only if some message of the
\* current transcript holds its "@id?" mention.
C39_MentionAgentPromptedOnlyIfMentioned ==
    \A id \in PromptTargets(out) :
        ActivationOf(id) = "mention" =>
            \E k \in 1..Len(Messages) : Mentioned(id, Messages[k].Content)

\* The stack returns to @b, an agent with activation "mention": the last
\* message does not mention it, an earlier one does.
C39_Witness ==
    /\ out = <<PromptAgent("@b")>>
    /\ rules = <<"popStack">>
    /\ ~Mentioned("@b", Messages[Len(Messages)].Content)
    /\ \E k \in 1..(Len(Messages) - 1) : Mentioned("@b", Messages[k].Content)


-----------------------------------------------------------------------------
\* C40: under the coordinator's discipline a frame whose caller is @user is
\* the bottom frame (so the stack holds at most one), and right after a
\* UserMessage has been processed the stack is empty or is the one frame
\* {@user, a} of the agent a that is prompted.
C40_UserFrameOnlyAtBottom ==
    /\ \A k \in 1..Len(CallStack) : CallStack[k].Caller = User => k = 1
    /\ ev.type = "UserMessage" =>
          \/ CallStack = <<>>
          \/ \E a \in AgentIDs :
                /\ CallStack = <<Frame(User, a)>>
                /\ out = <<PromptAgent(a)>>

\* A second UserMessage arrives while the stack holds the user's frame and
\* a delegation above it, and leaves the one frame of the agent it mentions.
C40_Witness ==
    /\ ev.type = "UserMessage"
    /\ before.stack = 2
    /\ Len(CallStack) = 1
    /\ CallStack[1].Caller = User
    /\ out = <<PromptAgent(CallStack[1].Callee)>>


-----------------------------------------------------------------------------
\* C35: when a turn of LLMRunner ends in an error of ChatStream, the partial
\* text of the AgentError it returns is everything the turn streamed as
\* TokenStreamed before the error, the deltas of the failing request
\* included.
C35_PartialIsAllStreamedContent ==
    (turn.runner = "llm" /\ turn.pc = "returned" /\ turn.err) =>
        turn.result = AgentErrorEv(turn.agent, turn.said)


-----------------------------------------------------------------------------
\* The arguments of the fragments of index i, joined in order of arrival.
RECURSIVE ArgumentsAt(_, _)
ArgumentsAt(received, i) ==
    IF received = <<>> THEN <<>>
    ELSE (IF Head(received).Index = i THEN Head(received).Arguments ELSE <<>>)
            \o ArgumentsAt(Tail(received), i)

\* C36: whatever indices the fragments of a stream carry and in whatever
\* order they arrive, ChatStream returns one tool call for each distinct
\* index, in ascending order of index, and its arguments are that index's
\* fragments joined in order of arrival.
C36_OneCallPerIndexInOrder ==
    stream.pc = "returned" =>
        LET idx == {stream.received[k].Index : k \in 1..Len(stream.received)}
            nth(j) == CHOOSE i \in idx : Cardinality({h \in idx : h < i}) = j - 1
        IN  /\ Len(stream.result) = Cardinality(idx)
            /\ \A j \in 1..Len(stream.result) :
                  stream.result[j].Arguments =
                      ArgumentsAt(stream.received, nth(j))


-----------------------------------------------------------------------------
\* C31: a WaitForExit(id) of a terminal the manager holds returns only once
\* the terminal's command has completed, and what it returns is the status
\* the command ended with (other than 0 when the command failed), on the
\* host and in the sandbox alike.
C31_WaitReturnsActualExitCode ==
    (/\ tm.call.op = "WaitForExit"
     /\ tm.call.pc = "returned"
     /\ tm.call.found) =>
        /\ tm.terms[tm.call.id].Done
        /\ tm.terms[tm.call.id].code >= 0 =>
              tm.call.exit = tm.terms[tm.call.id].code

\* C32: once Kill(id) or Release(id) has returned, the manager holds no
\* record for id, and GetOutput(id) and WaitForExit(id) find a terminal
\* exactly when the manager holds a record for it: after either call they
\* report not found.
C32_KillAndReleaseRemoveRecord ==
    /\ (tm.call.op \in {"Kill", "Release"} /\ tm.call.pc = "returned") =>
          tm.call.id \notin tm.terminals
    /\ (tm.call.op \in {"GetOutput", "WaitForExit"}) =>
          (tm.call.found <=> tm.call.id \in tm.terminals)


-----------------------------------------------------------------------------
\* C33: when start-up fails at any step (the sandbox, the spawn of an
\* external agent, its handshake, the creation of its session), nothing
\* that was started is left running when Run returns the error: not the
\* sandbox, not the process of an agent started before, not the one of the
\* agent that failed.
C33_FailedStartLeavesNothingRunning ==
    (floor.pc = "returned" /\ floor.err) =>
        /\ floor.sandbox # "started"
        /\ \A k \in DOMAIN floor.child : floor.child[k] # "running"


-----------------------------------------------------------------------------
\* C34: in the events a native runner streams for the tool calls of a turn,
\* every call of a tool stands between its own two events: the
\* ToolCallStarted with its title right before it, and the ToolCallResult
\* with the same title right after it, before the next ToolCallStarted; and
\* every ToolCallResult has a ToolCallStarted of its title before it that no
\* earlier ToolCallResult answers.
C34_ToolCallsBracketedByEvents ==
    LET e == tool.events
        count(type, title, p) ==
            Cardinality({q \in 1..(p - 1) :
                            e[q].type = type /\ e[q].Title = title})
    IN  \A p \in 1..Len(e) :
           /\ e[p].type = "called" =>
                 /\ p > 1 /\ e[p - 1].type = "ToolCallStarted"
                 /\ e[p - 1].Title = e[p].Title
                 /\ p < Len(e) /\ e[p + 1].type = "ToolCallResult"
                 /\ e[p + 1].Title = e[p].Title
           /\ e[p].type = "ToolCallResult" =>
                 count("ToolCallStarted", e[p].Title, p)
                     > count("ToolCallResult", e[p].Title, p)


-----------------------------------------------------------------------------
\* C37: the accumulators of the FloorClient (response text, interactions,
\* tool calls in flight) are empty while a prompt has been sent and no
\* update of it has arrived, and every read and write of them, by the
\* handler of notifications and by the runner, is made by a thread that
\* holds c.mu.
C37_AccumulatorsClearedAndLocked ==
    /\ (client.runner = "Prompt" /\ client.updates = 0) =>
          /\ client.ResponseText = <<>>
          /\ client.Interactions = <<>>
          /\ client.toolCalls = {}
    /\ \A a \in client.accesses : a.mu = a.thread

====
